---------------------------- MODULE Spec2Model ----------------------------
(***************************************************************************)
(* Downtime monitors of the dockerized Redis cluster repository:           *)
(*   src/app/downtime-ping.py  node monitor   (NodeStatus, SlotRange)      *)
(*   src/app/downtime-keys.py  key monitor    (ShardStatus)                *)
(*   src/app/downtime.py       operation monitor (DowntimeEvent)           *)
(* The three scripts are separate programs; `mon` says which one runs.     *)
(*                                                                         *)
(* Time: `now` is the reading of datetime.now() in clock ticks.  The clock *)
(* never goes back.  A network exchange (ping, GET/SET, CLUSTER SLOTS, a   *)
(* connection attempt) and a time.sleep() each take at least one tick;     *)
(* two reads of the clock with no I/O between them may give the same tick. *)
(***************************************************************************)
EXTENDS Integers, Sequences, FiniteSets, TLC

\* ------------------------------------------------------------------ bounds
MaxTime == 8          \* the clock stops the model at this tick
TopologyCheckTicks == 2  \* TOPOLOGY_CHECK_INTERVAL scaled to ticks
LiveHorizon == 5      \* the tick at which the clock of the endless loop stops

\* --------------------------------------------------------------- constants
None == -1            \* Optional[datetime] = None
TotalSlots == 16384   \* total_slots
MAX_RETRIES == 100    \* retries per operation before considering it failed

Nodes == {"A", "B"}                       \* "host:port" node ids
Bad == "bad"                              \* a primary entry that is no (host, port) pair
RangeKeys == {<<0, 8191>>, <<0, 16383>>}  \* slot ranges a snapshot may list

VARIABLES mon, pc, now,
          cluster, node_connections, nodes, node_order, slot_ranges,
          topology_changes, last_topology_check, last_current_nodes, start_time,
          pending, op,
          shards,
          STRICT_DOWNTIME_MODE, rc, current_downtime, stats, consecutive_failures

vars == <<mon, pc, now, cluster, node_connections, nodes, node_order, slot_ranges,
          topology_changes, last_topology_check, last_current_nodes, start_time,
          pending, op,
          shards, STRICT_DOWNTIME_MODE, rc, current_downtime, stats,
          consecutive_failures>>

pingVars == <<cluster, node_connections, nodes, node_order, slot_ranges,
              topology_changes, last_topology_check, last_current_nodes>>
keysVars == <<shards>>
opsVars == <<STRICT_DOWNTIME_MODE, rc, current_downtime, stats, consecutive_failures>>

\* last_current_nodes is a history variable: current_nodes, a local variable of
\* update_topology, as the latest call that returned True computed it

Steps == {1}      \* ticks one network exchange or one sleep takes
Lags == {0, 1}    \* ticks between two clock reads of one handler

\* the last step taken: its name, the entity probed, the outcome the
\* environment gave it and, for update_topology, the owners and the nodes of
\* the reply (current_slot_masters, current_nodes)
Op(name, target, outcome) ==
    [name |-> name, target |-> target, outcome |-> outcome,
     owners |-> <<>>, present |-> {}, probes |-> <<>>]

RECURSIVE SumDur(_)
SumDur(evs) == IF evs = <<>> THEN 0 ELSE evs[1][3] + SumDur(Tail(evs))

\* ===================================================== downtime-ping.py ==
\* NodeStatus(node_id, host, port, is_master), dataclass defaults
NodeStatus(is_master) ==
    [is_master |-> is_master, is_up |-> TRUE, downtime_start |-> None,
     current_downtime |-> 0, total_downtime |-> 0, downtime_events |-> <<>>]

\* mutant: mark_down that dates the downtime from the session start
NodeStatus_mark_down_at_session_start(node, timestamp) ==
    IF node.is_up
    THEN [node EXCEPT !.is_up = FALSE, !.downtime_start = start_time]
    ELSE node

\* NodeStatus.mark_down(timestamp)
NodeStatus_mark_down(node, timestamp) ==
    IF node.is_up
    THEN [node EXCEPT !.is_up = FALSE, !.downtime_start = timestamp]
    ELSE node

\* mutant: mark_up with total_downtime = duration instead of +=
NodeStatus_mark_up_sets_total(node, timestamp) ==
    IF ~node.is_up /\ node.downtime_start # None
    THEN LET downtime_duration == timestamp - node.downtime_start
         IN [node EXCEPT
               !.is_up = TRUE,
               !.current_downtime = downtime_duration,
               !.total_downtime = downtime_duration,
               !.downtime_events =
                   Append(@, <<node.downtime_start, timestamp, downtime_duration>>),
               !.downtime_start = None]
    ELSE node

\* NodeStatus.mark_up(timestamp)
NodeStatus_mark_up(node, timestamp) ==
    IF ~node.is_up /\ node.downtime_start # None
    THEN LET downtime_duration == timestamp - node.downtime_start
         IN [node EXCEPT
               !.is_up = TRUE,
               !.current_downtime = downtime_duration,
               !.total_downtime = @ + downtime_duration,
               !.downtime_events =
                   Append(@, <<node.downtime_start, timestamp, downtime_duration>>),
               !.downtime_start = None]
    ELSE node

\* SlotRange(start, end, current_master_id), dataclass defaults
SlotRange(master_id) ==
    [current_master_id |-> master_id, is_down |-> FALSE, downtime_start |-> None,
     current_downtime |-> 0, total_downtime |-> 0, downtime_events |-> <<>>]

\* SlotRange.slot_count of the range with key k = (start, end)
slot_count(k) == k[2] - k[1] + 1

\* SlotRange.mark_down(timestamp)
SlotRange_mark_down(r, timestamp) ==
    IF ~r.is_down
    THEN [r EXCEPT !.is_down = TRUE, !.downtime_start = timestamp]
    ELSE r

\* mutant: mark_up that does not clear downtime_start
SlotRange_mark_up_keeps_start(r, new_master_id, timestamp) ==
    IF r.is_down /\ r.downtime_start # None
    THEN LET downtime_duration == timestamp - r.downtime_start
         IN [r EXCEPT
               !.is_down = FALSE,
               !.current_downtime = downtime_duration,
               !.total_downtime = @ + downtime_duration,
               !.downtime_events =
                   Append(@, <<r.downtime_start, timestamp, downtime_duration,
                               r.current_master_id, new_master_id>>),
               !.current_master_id = new_master_id]
    ELSE r

\* mutant: mark_up that records the new master in the event only
SlotRange_mark_up_keeps_owner(r, new_master_id, timestamp) ==
    IF r.is_down /\ r.downtime_start # None
    THEN LET downtime_duration == timestamp - r.downtime_start
         IN [r EXCEPT
               !.is_down = FALSE,
               !.current_downtime = downtime_duration,
               !.total_downtime = @ + downtime_duration,
               !.downtime_events =
                   Append(@, <<r.downtime_start, timestamp, downtime_duration,
                               r.current_master_id, new_master_id>>),
               !.downtime_start = None]
    ELSE r

\* SlotRange.mark_up(new_master_id, timestamp)
SlotRange_mark_up(r, new_master_id, timestamp) ==
    IF r.is_down /\ r.downtime_start # None
    THEN LET downtime_duration == timestamp - r.downtime_start
         IN [r EXCEPT
               !.is_down = FALSE,
               !.current_downtime = downtime_duration,
               !.total_downtime = @ + downtime_duration,
               !.downtime_events =
                   Append(@, <<r.downtime_start, timestamp, downtime_duration,
                               r.current_master_id, new_master_id>>),
               !.current_master_id = new_master_id,
               !.downtime_start = None]
    ELSE r

\* a percentage is kept as the exact fraction <<p, q>> = p / q with q > 0
\* mutant: the result is returned without the clamp
Clamp_none(p, q) == <<p, q>>

\* max(0, min(100, uptime_percentage)) of the fraction p / q
Clamp(p, q) ==
    IF p < 0 THEN <<0, 1>>
    ELSE IF p > 100 * q THEN <<100, 1>>
    ELSE <<p, q>>

\* mutant: the downtime of a range counts in full, whatever its slot_count
RECURSIVE total_slot_downtime_unweighted(_, _)
total_slot_downtime_unweighted(rs, K) ==
    IF K = {} THEN 0
    ELSE LET k == CHOOSE x \in K : TRUE
         IN rs[k].total_downtime * TotalSlots
            + total_slot_downtime_unweighted(rs, K \ {k})

\* total_slot_downtime of ClusterStatus.uptime_percentage, times total_slots:
\* the sum over the ranges K of total_downtime * slot_count
RECURSIVE total_slot_downtime(_, _)
total_slot_downtime(rs, K) ==
    IF K = {} THEN 0
    ELSE LET k == CHOOSE x \in K : TRUE
         IN rs[k].total_downtime * slot_count(k) + total_slot_downtime(rs, K \ {k})

\* ClusterStatus.uptime_percentage of the node monitor; t is the clock read
\* by total_runtime
ClusterStatus_uptime_percentage(rs, start, t) ==
    IF DOMAIN rs = {} THEN <<100, 1>>
    ELSE IF t - start = 0 THEN <<100, 1>>
    ELSE Clamp(100 * (TotalSlots * (t - start))
                 - 100 * total_slot_downtime(rs, DOMAIN rs),
               TotalSlots * (t - start))

\* ---- cluster_slots() reply: [fmt, entries], entries : keys -> [primary, replicas]
Formats == {"dict", "list", "other"}
ReplicaChoices == {{}} \cup {{n} : n \in Nodes}
Entry == [primary : Nodes \cup {Bad}, replicas : ReplicaChoices]
Snapshots ==
    {[fmt |-> f, entries |-> e] :
        f \in {"dict", "list"},
        e \in UNION {[K -> Entry] : K \in SUBSET RangeKeys}}
    \cup {[fmt |-> "other", entries |-> <<>>]}

\* entries the parsing loops visit: isinstance(slots, dict) / isinstance(slots, list)
ParsedKeys(s) == IF s.fmt \in {"dict", "list"} THEN DOMAIN s.entries ELSE {}

\* entries whose primary passes the isinstance/len test
GoodKeys(s) == {k \in ParsedKeys(s) : s.entries[k].primary # Bad}

\* current_slot_masters, current_masters, current_nodes after the parsing loops
current_slot_masters(s) == [k \in GoodKeys(s) |-> s.entries[k].primary]
current_masters(s) == {s.entries[k].primary : k \in GoodKeys(s)}
current_nodes(s) ==
    current_masters(s) \cup
    UNION {s.entries[k].replicas :
             k \in (IF s.fmt = "dict" THEN ParsedKeys(s) ELSE GoodKeys(s))}

\* self.status.nodes after the parsing loops: new nodes are added, a tracked
\* primary gets is_master = True, a tracked replica is left alone
ParseNodes(ns, s) ==
    [n \in DOMAIN ns \cup current_nodes(s) |->
        IF n \in DOMAIN ns
        THEN IF n \in current_masters(s) THEN [ns[n] EXCEPT !.is_master = TRUE]
                                         ELSE ns[n]
        ELSE NodeStatus(n \in current_masters(s))]

\* new_masters: current masters that are tracked and not is_master (after parsing)
new_masters(ns1, s) ==
    {n \in current_masters(s) : n \in DOMAIN ns1 /\ ~ns1[n].is_master}

\* mutant: a node missing from the reply is marked down as of the previous
\* topology check instead of now
UpdateRoles_stale(ns1, s, t) ==
    [n \in DOMAIN ns1 |->
        IF n \in current_masters(s) THEN [ns1[n] EXCEPT !.is_master = TRUE]
        ELSE IF n \in current_nodes(s)
             THEN IF ns1[n].is_master THEN [ns1[n] EXCEPT !.is_master = FALSE]
                                      ELSE ns1[n]
             ELSE IF ns1[n].is_up
                  THEN NodeStatus_mark_down(ns1[n], last_topology_check)
                  ELSE ns1[n]]

\* mutant: a master that the reply lists only as a replica keeps its role
UpdateRoles_no_demotion(ns1, s, t) ==
    [n \in DOMAIN ns1 |->
        IF n \in current_masters(s) THEN [ns1[n] EXCEPT !.is_master = TRUE]
        ELSE IF n \in current_nodes(s) THEN ns1[n]
             ELSE IF ns1[n].is_up THEN NodeStatus_mark_down(ns1[n], t) ELSE ns1[n]]

\* mutant: a node missing from the reply gets downtime_start = now also when
\* it is down already
UpdateRoles_restamps(ns1, s, t) ==
    [n \in DOMAIN ns1 |->
        IF n \in current_masters(s) THEN [ns1[n] EXCEPT !.is_master = TRUE]
        ELSE IF n \in current_nodes(s)
             THEN IF ns1[n].is_master THEN [ns1[n] EXCEPT !.is_master = FALSE]
                                      ELSE ns1[n]
             ELSE [ns1[n] EXCEPT !.is_up = FALSE, !.downtime_start = t]]

\* "Update master status for all nodes"
UpdateRoles(ns1, s, t) ==
    [n \in DOMAIN ns1 |->
        IF n \in current_masters(s) THEN [ns1[n] EXCEPT !.is_master = TRUE]
        ELSE IF n \in current_nodes(s)
             THEN IF ns1[n].is_master THEN [ns1[n] EXCEPT !.is_master = FALSE]
                                      ELSE ns1[n]
             ELSE IF ns1[n].is_up THEN NodeStatus_mark_down(ns1[n], t) ELSE ns1[n]]

\* nodes the role loop demotes (sets topology_changed)
Demoted(ns1, s) ==
    {n \in DOMAIN ns1 :
        n \notin current_masters(s) /\ n \in current_nodes(s) /\ ns1[n].is_master}

\* mutant: an owner change of a DOWN range only rewrites the owner
UpdateRange_no_recovery(rs, k, master_id, t) ==
    IF k \notin DOMAIN rs THEN SlotRange(master_id)
    ELSE IF rs[k].current_master_id # master_id
         THEN [rs[k] EXCEPT !.current_master_id = master_id]
         ELSE rs[k]

\* mutant: every owner change goes through mark_up, the else branch is missing
UpdateRange_always_mark_up(rs, k, master_id, t) ==
    IF k \notin DOMAIN rs THEN SlotRange(master_id)
    ELSE IF rs[k].current_master_id # master_id
         THEN SlotRange_mark_up(rs[k], master_id, t)
         ELSE rs[k]

\* mutant: a DOWN range recovers on an owner change only if its old master
\* is UP (node health decides instead of the range's own flag)
UpdateRange_needs_master_up(rs, k, master_id, t) ==
    IF k \notin DOMAIN rs THEN SlotRange(master_id)
    ELSE IF rs[k].current_master_id # master_id
         THEN IF rs[k].is_down
              THEN IF rs[k].current_master_id \in DOMAIN nodes
                      /\ nodes[rs[k].current_master_id].is_up
                   THEN SlotRange_mark_up(rs[k], master_id, t)
                   ELSE rs[k]
              ELSE [rs[k] EXCEPT !.current_master_id = master_id]
         ELSE rs[k]

\* one slot range of the snapshot against the registry
UpdateRange(rs, k, master_id, t) ==
    IF k \notin DOMAIN rs THEN SlotRange(master_id)
    ELSE IF rs[k].current_master_id # master_id
         THEN IF rs[k].is_down
              THEN SlotRange_mark_up(rs[k], master_id, t)
              ELSE [rs[k] EXCEPT !.current_master_id = master_id]
         ELSE rs[k]

\* mutant: a range the reply no longer lists stays in the registry
UpdateRanges_keeps_removed(rs, s, t) ==
    [k \in GoodKeys(s) \cup DOMAIN rs |->
        IF k \in GoodKeys(s) THEN UpdateRange(rs, k, current_slot_masters(s)[k], t)
        ELSE rs[k]]

\* "Check for slot assignment changes" and "Check for removed slot ranges"
UpdateRanges(rs, s, t) ==
    [k \in GoodKeys(s) |-> UpdateRange(rs, k, current_slot_masters(s)[k], t)]

\* slot ranges added, re-owned and removed by the two loops
AddedRanges(rs, s) == GoodKeys(s) \ DOMAIN rs
MovedRanges(rs, s) ==
    {k \in GoodKeys(s) \cap DOMAIN rs :
        rs[k].current_master_id # current_slot_masters(s)[k]}
removed_ranges(rs, s) == DOMAIN rs \ GoodKeys(s)

\* topology_changed at the end of update_topology
topology_changed(ns, rs, s) ==
    \/ new_masters(ParseNodes(ns, s), s) # {}
    \/ Demoted(ParseNodes(ns, s), s) # {}
    \/ AddedRanges(rs, s) # {}
    \/ MovedRanges(rs, s) # {}
    \/ removed_ranges(rs, s) # {}

\* connect_to_cluster() inside update_topology, and cluster_slots():
\*   "no_client"   RedisCluster(...) raises, self.cluster stays None
\*   "no_ping"     self.cluster is set, then ping() raises
\*   "slots_error" cluster_slots() raises
TopologyFailures == {"no_client", "no_ping", "slots_error"}

\* mutant: a failed topology query empties the slot range registry
update_topology_fail_drops_ranges(res) ==
    /\ res \in {"no_client", "no_ping"} => ~cluster
    /\ cluster' = (cluster \/ res # "no_client")
    /\ slot_ranges' = <<>>
    /\ UNCHANGED <<node_connections, nodes, node_order,
                   topology_changes, last_topology_check, last_current_nodes>>
    /\ op' = Op("update_topology", "", res)

\* update_topology() returning False
update_topology_fail(res) ==
    /\ res \in {"no_client", "no_ping"} => ~cluster
    /\ cluster' = (cluster \/ res # "no_client")
    /\ UNCHANGED <<node_connections, nodes, node_order, slot_ranges,
                   topology_changes, last_topology_check, last_current_nodes>>
    /\ op' = Op("update_topology", "", res)

\* sequences that list every element of the set S once
RECURSIVE Orders(_)
Orders(S) ==
    IF S = {} THEN {<<>>}
    ELSE UNION {{<<x>> \o q : q \in Orders(S \ {x})} : x \in S}

\* the master nodes in the order list(self.status.nodes.items()) yields them
RECURSIVE MastersInOrder(_, _)
MastersInOrder(ns, order) ==
    IF order = <<>> THEN <<>>
    ELSE (IF ns[Head(order)].is_master THEN <<Head(order)>> ELSE <<>>)
         \o MastersInOrder(ns, Tail(order))

\* update_topology() returning True on reply s, read at time t.  Redis(host,
\* port) opens no socket and is taken to succeed for every current master.
\* New nodes enter the dict in the order the reply lists them.
update_topology_ok(s, t) ==
    /\ cluster' = TRUE
    /\ nodes' = UpdateRoles(ParseNodes(nodes, s), s, t)
    /\ \E q \in Orders(current_nodes(s) \ DOMAIN nodes) : node_order' = node_order \o q
    /\ slot_ranges' = UpdateRanges(slot_ranges, s, t)
    /\ node_connections' = node_connections \cup current_masters(s)
    /\ topology_changes' =
           IF topology_changed(nodes, slot_ranges, s)
           THEN topology_changes + 1 ELSE topology_changes
    /\ last_topology_check' = t
    /\ last_current_nodes' = current_nodes(s)
    /\ op' = [name |-> "update_topology", target |-> "", outcome |-> "ok",
              owners |-> current_slot_masters(s), present |-> current_nodes(s),
              probes |-> <<>>]

\* update_topology as run() and check_all_nodes() call it
UpdateTopologyOk ==
    /\ mon = "ping" /\ pc \in {"start", "cycle"} /\ now < MaxTime
    /\ pc = "cycle" => now - last_topology_check >= TopologyCheckTicks
    /\ \E s \in Snapshots, d \in Steps :
          /\ now' = now + d
          /\ update_topology_ok(s, now + d)
    /\ pc' = IF pc = "start" THEN "cycle" ELSE "probe"
    /\ pending' = IF pc = "start" THEN <<>> ELSE MastersInOrder(nodes', node_order')
    /\ UNCHANGED keysVars
    /\ UNCHANGED opsVars
    /\ UNCHANGED <<mon, start_time>>

\* mutant: a failed topology query ends the loop of run()
UpdateTopologyFail_exits ==
    /\ mon = "ping" /\ pc \in {"start", "cycle"} /\ now < MaxTime
    /\ pc = "cycle" => now - last_topology_check >= TopologyCheckTicks
    /\ \E d \in Steps : now' = now + d
    /\ \E res \in TopologyFailures : update_topology_fail(res)
    /\ pc' = "done"
    /\ pending' = <<>>
    /\ UNCHANGED keysVars
    /\ UNCHANGED opsVars
    /\ UNCHANGED <<mon, start_time>>

UpdateTopologyFail ==
    /\ mon = "ping" /\ pc \in {"start", "cycle"} /\ now < MaxTime
    /\ pc = "cycle" => now - last_topology_check >= TopologyCheckTicks
    /\ \E d \in Steps : now' = now + d
    /\ \E res \in TopologyFailures : update_topology_fail(res)
    /\ pc' = IF pc = "start" THEN "cycle" ELSE "probe"
    /\ pending' = IF pc = "start" THEN <<>> ELSE MastersInOrder(nodes, node_order)
    /\ UNCHANGED keysVars
    /\ UNCHANGED opsVars
    /\ UNCHANGED <<mon, start_time>>

\* check_all_nodes when the topology check is not due yet
CheckAllNodesBegin ==
    /\ mon = "ping" /\ pc = "cycle"
    /\ now - last_topology_check < TopologyCheckTicks
    /\ pc' = "probe"
    /\ pending' = MastersInOrder(nodes, node_order)
    /\ op' = Op("check_all_nodes", "", "")
    /\ UNCHANGED keysVars
    /\ UNCHANGED opsVars
    /\ UNCHANGED <<mon, now, cluster, node_connections, nodes, node_order,
                   slot_ranges, topology_changes, last_topology_check,
                   last_current_nodes, start_time>>

\* outcomes of one check_node call:
\*   "ctor_fail"  Redis(host, port) raises (only when the node has no connection)
\*   "ok"         ping() returns a true value
\*   "falsy"      ping() returns a false value
\*   "raise"      ping() raises (connection error, timeout, ...)
ProbeOutcomes == {"ctor_fail", "ok", "falsy", "raise"}

\* mutant: a failed probe marks every slot range down, whoever owns it
MarkRangesDown_all(rs, node_id, t) ==
    [k \in DOMAIN rs |->
        IF ~rs[k].is_down THEN SlotRange_mark_down(rs[k], t) ELSE rs[k]]

\* "Mark all slot ranges served by this master as down"
MarkRangesDown(rs, node_id, t) ==
    [k \in DOMAIN rs |->
        IF rs[k].current_master_id = node_id /\ ~rs[k].is_down
        THEN SlotRange_mark_down(rs[k], t) ELSE rs[k]]

\* mutant: every failed ping stamps downtime_start again
check_node_node_restamps(node, outcome, t1) ==
    CASE outcome = "ctor_fail" -> NodeStatus_mark_down(node, t1)
      [] outcome = "ok" -> IF ~node.is_up THEN NodeStatus_mark_up(node, t1) ELSE node
      [] outcome = "raise" -> [node EXCEPT !.is_up = FALSE, !.downtime_start = t1]
      [] OTHER -> node

\* the node after check_node with the given outcome; t1 is the clock read
\* inside mark_down() / mark_up()
check_node_node(node, outcome, t1) ==
    CASE outcome = "ctor_fail" -> NodeStatus_mark_down(node, t1)
      [] outcome = "ok" -> IF ~node.is_up THEN NodeStatus_mark_up(node, t1) ELSE node
      [] outcome = "raise" -> IF node.is_up THEN NodeStatus_mark_down(node, t1) ELSE node
      [] OTHER -> node

\* whether check_node runs the slot-range loop, which reads the clock again
check_node_marks_ranges(node, outcome) ==
    \/ outcome = "ctor_fail"
    \/ outcome = "raise" /\ node.is_up

\* mutant: a successful ping of a DOWN node also recovers the ranges it owns
check_node_ranges_recovers(rs, node_id, node, outcome, t2) ==
    IF check_node_marks_ranges(node, outcome)
    THEN MarkRangesDown(rs, node_id, t2)
    ELSE IF outcome = "ok" /\ ~node.is_up
         THEN [k \in DOMAIN rs |->
                 IF rs[k].current_master_id = node_id
                 THEN SlotRange_mark_up(rs[k], node_id, t2) ELSE rs[k]]
         ELSE rs

\* the slot ranges after check_node; t2 is the clock read before the loop
check_node_ranges(rs, node_id, node, outcome, t2) ==
    IF check_node_marks_ranges(node, outcome)
    THEN MarkRangesDown(rs, node_id, t2) ELSE rs

\* check_node(node_id), called by check_all_nodes for each master in turn
CheckNode ==
    /\ mon = "ping" /\ pc = "probe" /\ pending # <<>>
    /\ \E outcome \in ProbeOutcomes, d \in Steps, e \in Lags :
          LET n == Head(pending)
              t1 == now + d
              t2 == t1 + e
              second == check_node_marks_ranges(nodes[n], outcome)
          IN /\ outcome = "ctor_fail" => n \notin node_connections
             /\ (~second) => e = 0
             /\ t2 <= MaxTime
             /\ now' = t2
             /\ nodes' = [nodes EXCEPT ![n] = check_node_node(@, outcome, t1)]
             /\ slot_ranges' = check_node_ranges(slot_ranges, n, nodes[n], outcome, t2)
             /\ node_connections' =
                   IF outcome = "ctor_fail" THEN node_connections
                                            ELSE node_connections \cup {n}
             /\ op' = Op("check_node", n, outcome)
    /\ pending' = Tail(pending)
    /\ UNCHANGED keysVars
    /\ UNCHANGED opsVars
    /\ UNCHANGED <<mon, pc, cluster, node_order, topology_changes,
                   last_topology_check, last_current_nodes, start_time>>

\* time.sleep(CHECK_INTERVAL) at the end of a cycle of run()
PingSleep ==
    /\ mon = "ping" /\ pc = "probe" /\ pending = <<>> /\ now < MaxTime
    /\ \E d \in Steps : now' = now + d
    /\ pc' = "cycle"
    /\ op' = Op("sleep", "", "")
    /\ UNCHANGED keysVars
    /\ UNCHANGED opsVars
    /\ UNCHANGED <<mon, cluster, node_connections, nodes, node_order, slot_ranges,
                   topology_changes, last_topology_check, last_current_nodes,
                   start_time, pending>>

\* KeyboardInterrupt in the loop of run(): break, then shutdown()
PingShutdown ==
    /\ mon = "ping" /\ pc \in {"cycle", "probe"}
    /\ pc' = "done"
    /\ pending' = <<>>
    /\ op' = Op("shutdown", "", "")
    /\ UNCHANGED keysVars
    /\ UNCHANGED opsVars
    /\ UNCHANGED <<mon, now, cluster, node_connections, nodes, node_order,
                   slot_ranges, topology_changes, last_topology_check,
                   last_current_nodes, start_time>>

\* ===================================================== downtime-keys.py ==
\* ShardStatus(shard_id, slot_range, key, master_address, last_value)
ShardStatus(master_address) ==
    [master_address |-> master_address, is_up |-> TRUE, downtime_start |-> None,
     current_downtime |-> 0, total_downtime |-> 0, downtime_events |-> <<>>]

\* ShardStatus.mark_down(timestamp)
ShardStatus_mark_down(shard, timestamp) ==
    IF shard.is_up
    THEN [shard EXCEPT !.is_up = FALSE, !.downtime_start = timestamp]
    ELSE shard

\* mutant: mark_up with the subtraction reversed
ShardStatus_mark_up_reversed(shard, timestamp) ==
    IF ~shard.is_up /\ shard.downtime_start # None
    THEN LET downtime_duration == shard.downtime_start - timestamp
         IN [shard EXCEPT
               !.is_up = TRUE,
               !.current_downtime = downtime_duration,
               !.total_downtime = @ + downtime_duration,
               !.downtime_events =
                   Append(@, <<shard.downtime_start, timestamp, downtime_duration>>),
               !.downtime_start = None]
    ELSE shard

\* ShardStatus.mark_up(timestamp)
ShardStatus_mark_up(shard, timestamp) ==
    IF ~shard.is_up /\ shard.downtime_start # None
    THEN LET downtime_duration == timestamp - shard.downtime_start
         IN [shard EXCEPT
               !.is_up = TRUE,
               !.current_downtime = downtime_duration,
               !.total_downtime = @ + downtime_duration,
               !.downtime_events =
                   Append(@, <<shard.downtime_start, timestamp, downtime_duration>>),
               !.downtime_start = None]
    ELSE shard

\* mutant: the time since downtime_start is added also for a shard that is up
current_total_downtime_unguarded(shard, t) ==
    shard.total_downtime + (t - shard.downtime_start)

\* ShardStatus.current_total_downtime; t is the clock it reads
current_total_downtime(shard, t) ==
    IF shard.is_up \/ shard.downtime_start = None
    THEN shard.total_downtime
    ELSE shard.total_downtime + (t - shard.downtime_start)

\* total_slot_downtime of the key monitor's ClusterStatus.uptime_percentage
RECURSIVE shard_slot_downtime(_, _, _)
shard_slot_downtime(sh, K, t) ==
    IF K = {} THEN 0
    ELSE LET k == CHOOSE x \in K : TRUE
         IN current_total_downtime(sh[k], t) * slot_count(k)
            + shard_slot_downtime(sh, K \ {k}, t)

\* ClusterStatus.uptime_percentage of the key monitor; t1 is the clock read
\* by current_total_downtime, t2 >= t1 the one read by total_runtime
KeyClusterStatus_uptime_percentage(sh, start, t1, t2) ==
    IF DOMAIN sh = {} THEN <<100, 1>>
    ELSE IF (t2 - start) * TotalSlots = 0 THEN <<100, 1>>
    ELSE Clamp(100 * ((t2 - start) * TotalSlots)
                 - 100 * shard_slot_downtime(sh, DOMAIN sh, t1),
               (t2 - start) * TotalSlots)

\* get_cluster_shards(): the entries of a dict reply with a tuple primary;
\* any other reply raises inside the try and gives {}
get_cluster_shards(s) == IF s.fmt = "dict" THEN GoodKeys(s) ELSE {}

\* self.status.shards after initialize_shard_keys: a ShardStatus for every
\* shard whose key was generated and written (written = those shards)
initialize_shard_keys(s, written) ==
    [k \in written |-> ShardStatus(s.entries[k].primary)]

\* run() up to the loop: connect_to_cluster (twice at most), flush_all_shards,
\* initialize_shard_keys; connected = FALSE is both connection attempts failing.
\* op.owners keeps the shards get_cluster_shards() reported.
KeysStart ==
    /\ mon = "keys" /\ pc = "start" /\ now < MaxTime
    /\ \E d \in Steps : now' = now + d
    /\ \E connected \in BOOLEAN :
          /\ IF connected
             THEN \E s \in Snapshots :
                    \E written \in SUBSET get_cluster_shards(s) :
                      \E order \in Orders(written) :
                        /\ shards' = initialize_shard_keys(s, written)
                        /\ node_order' = order
                        /\ pc' = "cycle"
                        /\ op' = [Op("run", "", "ok") EXCEPT
                                    !.owners = [k \in get_cluster_shards(s) |->
                                                  s.entries[k].primary]]
             ELSE /\ UNCHANGED <<shards, node_order>>
                  /\ pc' = "exit"
                  /\ op' = Op("run", "", "no_connection")
          /\ cluster' = connected
    /\ UNCHANGED <<mon, node_connections, nodes, slot_ranges, topology_changes,
                   last_topology_check, last_current_nodes, start_time, pending>>
    /\ UNCHANGED opsVars

\* check_all_shards() starts: for shard_id, shard_status in shards.items()
CheckAllShardsBegin ==
    /\ mon = "keys" /\ pc = "cycle"
    /\ pc' = "probe"
    /\ pending' = node_order
    /\ op' = Op("check_all_shards", "", "")
    /\ UNCHANGED <<mon, now, start_time, shards>>
    /\ UNCHANGED pingVars
    /\ UNCHANGED opsVars

\* mutant: the recovery test is inverted
check_shard_inverted(shard, ok, t) ==
    IF ok THEN IF shard.is_up THEN ShardStatus_mark_up(shard, t) ELSE shard
          ELSE IF shard.is_up THEN ShardStatus_mark_down(shard, t) ELSE shard

\* the shard after one iteration of check_all_shards: GET and SET of its key
\* succeed (ok) or one of them raises; t is the clock read in mark_up/mark_down
check_shard(shard, ok, t) ==
    IF ok THEN IF ~shard.is_up THEN ShardStatus_mark_up(shard, t) ELSE shard
          ELSE IF shard.is_up THEN ShardStatus_mark_down(shard, t) ELSE shard

\* one iteration of the loop of check_all_shards
CheckShard ==
    /\ mon = "keys" /\ pc = "probe" /\ pending # <<>> /\ now < MaxTime
    /\ \E ok \in BOOLEAN, d \in Steps :
          LET k == Head(pending)
          IN /\ now' = now + d
             /\ shards' = [shards EXCEPT ![k] = check_shard(@, ok, now + d)]
             /\ op' = Op("check_shard", k, IF ok THEN "ok" ELSE "raise")
    /\ pending' = Tail(pending)
    /\ UNCHANGED <<mon, pc, start_time>>
    /\ UNCHANGED pingVars
    /\ UNCHANGED opsVars

\* check_all_shards() ends; time.sleep(CHECK_INTERVAL)
KeysSleep ==
    /\ mon = "keys" /\ pc = "probe" /\ pending = <<>> /\ now < MaxTime
    /\ \E d \in Steps : now' = now + d
    /\ pc' = "cycle"
    /\ op' = Op("sleep", "", "")
    /\ UNCHANGED <<mon, start_time, pending, shards>>
    /\ UNCHANGED pingVars
    /\ UNCHANGED opsVars

\* KeyboardInterrupt in the loop of run(): break, then shutdown(), which
\* prints the status and deletes the keys
KeysShutdown ==
    /\ mon = "keys" /\ pc \in {"cycle", "probe"}
    /\ pc' = "done"
    /\ pending' = <<>>
    /\ op' = Op("shutdown", "", "")
    /\ UNCHANGED <<mon, now, start_time, shards>>
    /\ UNCHANGED pingVars
    /\ UNCHANGED opsVars

\* ========================================================== downtime.py ==
\* the operations one detection or recovery cycle performs, in order
operations == <<"write", "read", "list_op", "cluster_info">>

\* current_downtime = None
NoDowntime ==
    [start_time |-> None, end_time |-> None, duration |-> None,
     failure_type |-> "none"]

\* DowntimeEvent(start_time, failure_type); the lists of operation names it
\* carries for the report are left out
DowntimeEvent(start, failure_type) ==
    [start_time |-> start, end_time |-> None, duration |-> None,
     failure_type |-> failure_type]

\* mutant: complete() that measures the duration from the session start
complete_from_session_start(event, recovery_time) ==
    [event EXCEPT !.end_time = recovery_time,
                  !.duration = recovery_time - start_time]

\* mutant: complete() that ends the event where it started
complete_at_start(event, recovery_time) ==
    [event EXCEPT !.end_time = event.start_time, !.duration = 0]

\* DowntimeEvent.complete(recovery_time)
complete(event, recovery_time) ==
    [event EXCEPT !.end_time = recovery_time,
                  !.duration = recovery_time - event.start_time]

\* MonitoringStats()
MonitoringStats ==
    [total_runtime |-> 0, total_downtime |-> 0, downtime_events |-> <<>>,
     total_operations |-> 0, failed_operations |-> 0]

\* MonitoringStats.uptime_percentage
MonitoringStats_uptime_percentage(st) ==
    IF st.total_runtime = 0 THEN <<100, 1>>
    ELSE <<100 * (st.total_runtime - st.total_downtime), st.total_runtime>>

\* results of the four perform_operation calls of one cycle: TRUE = returned True
Results == [1..Len(operations) -> BOOLEAN]

\* failed_ops of a cycle, as positions in `operations`
failed_ops(results) == {i \in DOMAIN results : ~results[i]}

\* mutant: the majority rule in both modes
is_downtime_majority(strict, results) ==
    Cardinality(failed_ops(results)) >= Len(operations) \div 2 + 1

\* mutant: the majority rule with the threshold at half of the operations
is_downtime_half(strict, results) ==
    IF strict
    THEN Cardinality(failed_ops(results)) > 0
    ELSE Cardinality(failed_ops(results)) >= Len(operations) \div 2

\* mutant: the strict rule in both modes
is_downtime_any(strict, results) ==
    Cardinality(failed_ops(results)) > 0

\* is_downtime as detect_downtime_start decides it
is_downtime(strict, results) ==
    IF strict
    THEN Cardinality(failed_ops(results)) > 0
    ELSE Cardinality(failed_ops(results)) >= Len(operations) \div 2 + 1

\* the counters after the four perform_operation calls; without a connection
\* perform_operation returns False and counts nothing
CountOperations(st, connected, results) ==
    IF connected
    THEN [st EXCEPT
            !.total_operations = @ + Cardinality(DOMAIN results \ failed_ops(results)),
            !.failed_operations = @ + Cardinality(failed_ops(results))]
    ELSE st

\* run() before the loop: the initial connect_to_cluster()
OpsStart ==
    /\ mon = "ops" /\ pc = "start" /\ now < MaxTime
    /\ \E connected \in BOOLEAN, d \in Steps :
          /\ now' = now + d
          /\ rc' = connected
          /\ current_downtime' =
                IF connected THEN NoDowntime
                ELSE DowntimeEvent(now + d, "initial_connection_failure")
          /\ op' = Op("run", "", IF connected THEN "ok" ELSE "no_connection")
    /\ pc' = "loop"
    /\ UNCHANGED <<mon, start_time, pending, STRICT_DOWNTIME_MODE, stats,
                   consecutive_failures>>
    /\ UNCHANGED pingVars
    /\ UNCHANGED keysVars

\* mutant: the detection pass runs also while a downtime is open
DetectDowntimeStart_unguarded ==
    /\ mon = "ops" /\ pc = "loop"
    /\ \E results \in Results, d \in Steps :
          LET t == now + d
              down == is_downtime(STRICT_DOWNTIME_MODE, results)
          IN /\ ~rc => results = [i \in DOMAIN results |-> FALSE]
             /\ now' = IF down THEN t ELSE t + 1
             /\ now' <= MaxTime
             /\ stats' = CountOperations(stats, rc, results)
             /\ consecutive_failures' = IF down THEN consecutive_failures + 1 ELSE 0
             /\ current_downtime' =
                   IF down THEN DowntimeEvent(t, "operation_failure") ELSE NoDowntime
             /\ op' = [Op("detect_downtime_start", "", IF down THEN "True" ELSE "False")
                         EXCEPT !.probes = results]
    /\ UNCHANGED <<mon, pc, start_time, pending, STRICT_DOWNTIME_MODE, rc>>
    /\ UNCHANGED pingVars
    /\ UNCHANGED keysVars

\* one pass of the loop of run() with no open downtime: detect_downtime_start(),
\* then time.sleep(OPERATION_INTERVAL) unless downtime was detected
DetectDowntimeStart ==
    /\ mon = "ops" /\ pc = "loop" /\ current_downtime = NoDowntime
    /\ \E results \in Results, d \in Steps :
          LET t == now + d
              down == is_downtime(STRICT_DOWNTIME_MODE, results)
          IN /\ ~rc => results = [i \in DOMAIN results |-> FALSE]
             /\ now' = IF down THEN t ELSE t + 1
             /\ now' <= MaxTime
             /\ stats' = CountOperations(stats, rc, results)
             /\ consecutive_failures' = IF down THEN consecutive_failures + 1 ELSE 0
             /\ current_downtime' =
                   IF down THEN DowntimeEvent(t, "operation_failure") ELSE NoDowntime
             /\ op' = [Op("detect_downtime_start", "", IF down THEN "True" ELSE "False")
                         EXCEPT !.probes = results]
    /\ UNCHANGED <<mon, pc, start_time, pending, STRICT_DOWNTIME_MODE, rc>>
    /\ UNCHANGED pingVars
    /\ UNCHANGED keysVars

\* one pass of the loop of run() with no open downtime in which an exception
\* leaves the detection: raised by a print inside detect_downtime_start after
\* it opened the downtime (verdict down), or raised while or after it returned
\* False (before or after consecutive_failures was reset).  The except clause
\* of run() opens a "detection_failure" downtime unless one is open, and
\* sleeps RETRY_INTERVAL.
DetectionFailure ==
    /\ mon = "ops" /\ pc = "loop" /\ current_downtime = NoDowntime
    /\ \E results \in Results, d \in Steps, reset \in BOOLEAN :
          LET t == now + d
              down == is_downtime(STRICT_DOWNTIME_MODE, results)
          IN /\ ~rc => results = [i \in DOMAIN results |-> FALSE]
             /\ (down \/ consecutive_failures = 0) => reset
             /\ now' = t + 1
             /\ now' <= MaxTime
             /\ stats' = CountOperations(stats, rc, results)
             /\ consecutive_failures' =
                   IF down THEN consecutive_failures + 1
                   ELSE IF reset THEN 0 ELSE consecutive_failures
             /\ current_downtime' =
                   IF down THEN DowntimeEvent(t, "operation_failure")
                   ELSE DowntimeEvent(t, "detection_failure")
             /\ op' = [Op("detection_failure", "", IF down THEN "True" ELSE "False")
                         EXCEPT !.probes = results]
    /\ UNCHANGED <<mon, pc, start_time, pending, STRICT_DOWNTIME_MODE, rc>>
    /\ UNCHANGED pingVars
    /\ UNCHANGED keysVars

\* mutant: recovery is decided by the downtime policy of the session
AttemptRecovery_by_policy ==
    /\ mon = "ops" /\ pc = "loop" /\ current_downtime # NoDowntime
    /\ \E reconnected \in BOOLEAN, results \in Results, d \in Steps :
          LET t == now + d
              recovered == reconnected /\ ~is_downtime(STRICT_DOWNTIME_MODE, results)
              done == complete(current_downtime, t)
          IN /\ ~reconnected => results = [i \in DOMAIN results |-> FALSE]
             /\ now' = t + 1
             /\ now' <= MaxTime
             /\ rc' = reconnected
             /\ stats' =
                   IF recovered
                   THEN [CountOperations(stats, TRUE, results) EXCEPT
                           !.downtime_events = Append(@, done),
                           !.total_downtime = @ + done.duration]
                   ELSE CountOperations(stats, reconnected, results)
             /\ current_downtime' = IF recovered THEN NoDowntime ELSE current_downtime
             /\ op' = [Op("attempt_recovery", "",
                          IF recovered THEN "True" ELSE "False")
                         EXCEPT !.probes = results]
    /\ UNCHANGED <<mon, pc, start_time, pending, STRICT_DOWNTIME_MODE,
                   consecutive_failures>>
    /\ UNCHANGED pingVars
    /\ UNCHANGED keysVars

\* one pass of the loop of run() with an open downtime: attempt_recovery(),
\* then time.sleep(); reconnected = connect_to_cluster() returned True
AttemptRecovery ==
    /\ mon = "ops" /\ pc = "loop" /\ current_downtime # NoDowntime
    /\ \E reconnected \in BOOLEAN, results \in Results, d \in Steps :
          LET t == now + d
              recovered == reconnected /\ failed_ops(results) = {}
              done == complete(current_downtime, t)
          IN /\ ~reconnected => results = [i \in DOMAIN results |-> FALSE]
             /\ now' = t + 1
             /\ now' <= MaxTime
             /\ rc' = reconnected
             /\ stats' =
                   IF recovered
                   THEN [CountOperations(stats, TRUE, results) EXCEPT
                           !.downtime_events = Append(@, done),
                           !.total_downtime = @ + done.duration]
                   ELSE CountOperations(stats, reconnected, results)
             /\ current_downtime' = IF recovered THEN NoDowntime ELSE current_downtime
             /\ op' = [Op("attempt_recovery", "",
                          IF recovered THEN "True" ELSE "False")
                         EXCEPT !.probes = results]
    /\ UNCHANGED <<mon, pc, start_time, pending, STRICT_DOWNTIME_MODE,
                   consecutive_failures>>
    /\ UNCHANGED pingVars
    /\ UNCHANGED keysVars

\* print_status_update() at the top of a pass of the loop of run(), when the
\* status interval has elapsed; it reads the clock for the runtime it prints
\* and self.stats.uptime_percentage for the uptime; the pass then goes on
\* with attempt_recovery() or detect_downtime_start()
PrintStatusUpdate ==
    /\ mon = "ops" /\ pc = "loop" /\ op.name # "print_status_update"
    /\ op' = Op("print_status_update", "", "")
    /\ UNCHANGED <<mon, pc, now, start_time, pending>>
    /\ UNCHANGED pingVars
    /\ UNCHANGED keysVars
    /\ UNCHANGED opsVars

\* KeyboardInterrupt in the loop of run(): break, then shutdown(); the clock is
\* read once for total_runtime and once more to complete the open event
OpsShutdown ==
    /\ mon = "ops" /\ pc = "loop"
    /\ \E e \in Lags :
          LET t == now
              done == complete(current_downtime, t + e)
              open == current_downtime # NoDowntime
          IN /\ open \/ e = 0
             /\ t + e <= MaxTime
             /\ now' = t + e
             /\ stats' =
                   IF open
                   THEN [stats EXCEPT
                           !.total_runtime = t - start_time,
                           !.downtime_events = Append(@, done),
                           !.total_downtime = @ + done.duration]
                   ELSE [stats EXCEPT !.total_runtime = t - start_time]
             /\ current_downtime' = IF open THEN done ELSE current_downtime
    /\ pc' = "done"
    /\ op' = Op("shutdown", "", "")
    /\ UNCHANGED <<mon, start_time, pending, STRICT_DOWNTIME_MODE, rc,
                   consecutive_failures>>
    /\ UNCHANGED pingVars
    /\ UNCHANGED keysVars

\* SIGINT while a loop runs in a process started through main() (or the
\* __main__ block of downtime-keys.py), which installed signal_handler: the
\* handler calls sys.exit(0); SystemExit is no KeyboardInterrupt and no
\* Exception, so no except clause of run() or main() takes it, shutdown() is
\* not called and the process ends.  The Shutdown actions above are the
\* KeyboardInterrupt SIGINT raises when run() is called without that handler.
signal_handler ==
    /\ pc \in {"cycle", "probe", "loop"}
    /\ pc' = "exit"
    /\ op' = Op("signal_handler", "", "SystemExit")
    /\ UNCHANGED <<mon, now, start_time, pending>>
    /\ UNCHANGED pingVars
    /\ UNCHANGED keysVars
    /\ UNCHANGED opsVars

\* ================================================================== system
Init ==
    /\ mon \in {"ping", "keys", "ops"}
    /\ pc = "start"
    /\ now = 0
    /\ cluster = FALSE
    /\ node_connections = {}
    /\ nodes = <<>>
    /\ node_order = <<>>
    /\ slot_ranges = <<>>
    /\ topology_changes = 0
    /\ last_topology_check = 0
    /\ last_current_nodes = {}
    /\ start_time = 0
    /\ pending = <<>>
    /\ op = Op("init", "", "")
    /\ shards = <<>>
    /\ STRICT_DOWNTIME_MODE \in (IF mon = "ops" THEN BOOLEAN ELSE {TRUE})
    /\ rc = FALSE
    /\ current_downtime = NoDowntime
    /\ stats = MonitoringStats
    /\ consecutive_failures = 0

Next ==
    \/ UpdateTopologyOk
    \/ UpdateTopologyFail
    \/ CheckAllNodesBegin
    \/ CheckNode
    \/ PingSleep
    \/ PingShutdown
    \/ KeysStart
    \/ CheckAllShardsBegin
    \/ CheckShard
    \/ KeysSleep
    \/ KeysShutdown
    \/ OpsStart
    \/ DetectDowntimeStart
    \/ DetectionFailure
    \/ AttemptRecovery
    \/ PrintStatusUpdate
    \/ OpsShutdown
    \/ signal_handler

Spec == Init /\ [][Next]_vars

\* ------------------------------------------- perform_operation, by attempt
\* what one attempt of perform_operation gives: the operation and its
\* verification pass, or one of the two except clauses takes what was raised
AttemptOutcomes == {"ok", "ConnectionError", "Exception"}

\* mutant: the operation is given up one attempt early
attempt_result_gives_up_early(attempt, outcome) ==
    IF outcome = "ok" THEN "True"
    ELSE IF attempt >= MAX_RETRIES - 2 THEN "False"
    ELSE "retry"

\* how the pass `attempt` (counted from 0) of the for loop ends: return True,
\* return False, or time.sleep(0.1) and the next pass
attempt_result(attempt, outcome) ==
    IF outcome = "ok" THEN "True"
    ELSE IF attempt = MAX_RETRIES - 1 THEN "False"
    ELSE "retry"

\* a monitor about to call perform_operation with or without a connection
\* and with some operations counted already
InitPerformOperation ==
    /\ mon = "ops"
    /\ pc = "call"
    /\ now = 0
    /\ cluster = FALSE
    /\ node_connections = {}
    /\ nodes = <<>>
    /\ node_order = <<>>
    /\ slot_ranges = <<>>
    /\ topology_changes = 0
    /\ last_topology_check = 0
    /\ last_current_nodes = {}
    /\ start_time = 0
    /\ pending = <<>>
    /\ op = Op("init", "", "")
    /\ shards = <<>>
    /\ STRICT_DOWNTIME_MODE = TRUE
    /\ rc \in BOOLEAN
    /\ current_downtime = NoDowntime
    /\ stats \in {[MonitoringStats EXCEPT !.total_operations = a,
                                          !.failed_operations = b] :
                     a \in 0..1, b \in 0..1}
    /\ consecutive_failures = 0

\* perform_operation(operation_type) up to the for loop: without a connection
\* it returns False at once
PerformOperationCall ==
    /\ mon = "ops" /\ pc = "call"
    /\ \E i \in DOMAIN operations :
          /\ op' = Op("perform_operation", operations[i], IF rc THEN "" ELSE "False")
          /\ pc' = IF rc THEN "attempt" ELSE "return"
    /\ UNCHANGED <<mon, now, start_time, pending>>
    /\ UNCHANGED pingVars
    /\ UNCHANGED keysVars
    /\ UNCHANGED opsVars

\* one pass of the for loop of perform_operation; op.probes lists the passes
\* made so far (TRUE for the one that succeeded), so its length is `attempt`.
\* The last pass always returns, so the "return False" after the loop is
\* never reached.
PerformOperationAttempt ==
    /\ mon = "ops" /\ pc = "attempt"
    /\ Len(op.probes) < MAX_RETRIES
    /\ \E outcome \in AttemptOutcomes, d \in Steps :
          LET attempt == Len(op.probes)
              result == attempt_result(attempt, outcome)
          IN /\ now' = now + d
             /\ stats' =
                   CASE result = "True" -> [stats EXCEPT !.total_operations = @ + 1]
                     [] result = "False" -> [stats EXCEPT !.failed_operations = @ + 1]
                     [] OTHER -> stats
             /\ pc' = IF result = "retry" THEN "attempt" ELSE "return"
             /\ op' = [op EXCEPT !.probes = Append(@, outcome = "ok"),
                                 !.outcome = IF result = "retry" THEN "" ELSE result]
    /\ UNCHANGED <<mon, start_time, pending, STRICT_DOWNTIME_MODE, rc,
                   current_downtime, consecutive_failures>>
    /\ UNCHANGED pingVars
    /\ UNCHANGED keysVars

\* a monitor that makes one call of perform_operation
NextPerformOperation ==
    \/ PerformOperationCall
    \/ PerformOperationAttempt

SpecPerformOperation == InitPerformOperation /\ [][NextPerformOperation]_vars

\* ------------------------------------- the node monitor's loop, run forever
\* The loop of run() with no interrupt.  The clock is exact up to LiveHorizon
\* and its readings stop there, so that the loop can go round for ever in
\* finitely many states; past the horizon the elapsed-time test of
\* check_all_nodes may go either way.  From the horizon on the environment is
\* the one the eventual recovery of a node is about: every ping is answered
\* and every reply of the cluster lists all the nodes of the registry and
\* reports the roles and owners the registry has (the topology has settled,
\* which also keeps topology_changes bounded).
\* the reading of the clock d ticks from now
Tick(d) == IF now + d > LiveHorizon THEN LiveHorizon ELSE now + d
PastHorizon == now >= LiveHorizon

\* the node monitor after construction
InitLive == Init /\ mon = "ping"

\* update_topology() returning True
LiveUpdateTopologyOk ==
    /\ mon = "ping" /\ pc \in {"start", "cycle"}
    /\ pc = "cycle"
       => (PastHorizon \/ now - last_topology_check >= TopologyCheckTicks)
    /\ \E s \in Snapshots, d \in Steps :
          /\ PastHorizon => /\ DOMAIN nodes \subseteq current_nodes(s)
                            /\ ~topology_changed(nodes, slot_ranges, s)
          /\ now' = Tick(d)
          /\ update_topology_ok(s, Tick(d))
    /\ pc' = IF pc = "start" THEN "cycle" ELSE "probe"
    /\ pending' = IF pc = "start" THEN <<>> ELSE MastersInOrder(nodes', node_order')
    /\ UNCHANGED keysVars
    /\ UNCHANGED opsVars
    /\ UNCHANGED <<mon, start_time>>

\* update_topology() returning False
LiveUpdateTopologyFail ==
    /\ mon = "ping" /\ pc \in {"start", "cycle"}
    /\ pc = "cycle"
       => (PastHorizon \/ now - last_topology_check >= TopologyCheckTicks)
    /\ \E d \in Steps : now' = Tick(d)
    /\ \E res \in TopologyFailures : update_topology_fail(res)
    /\ pc' = IF pc = "start" THEN "cycle" ELSE "probe"
    /\ pending' = IF pc = "start" THEN <<>> ELSE MastersInOrder(nodes, node_order)
    /\ UNCHANGED keysVars
    /\ UNCHANGED opsVars
    /\ UNCHANGED <<mon, start_time>>

\* check_all_nodes without a topology check
LiveCheckAllNodesBegin ==
    /\ mon = "ping" /\ pc = "cycle"
    /\ PastHorizon \/ now - last_topology_check < TopologyCheckTicks
    /\ pc' = "probe"
    /\ pending' = MastersInOrder(nodes, node_order)
    /\ op' = Op("check_all_nodes", "", "")
    /\ UNCHANGED keysVars
    /\ UNCHANGED opsVars
    /\ UNCHANGED <<mon, now, cluster, node_connections, nodes, node_order,
                   slot_ranges, topology_changes, last_topology_check,
                   last_current_nodes, start_time>>

\* check_node(node_id) for the next master of the cycle
LiveCheckNode ==
    /\ mon = "ping" /\ pc = "probe" /\ pending # <<>>
    /\ \E outcome \in ProbeOutcomes, d \in Steps, e \in Lags :
          LET n == Head(pending)
              t1 == Tick(d)
              t2 == Tick(d + e)
              second == check_node_marks_ranges(nodes[n], outcome)
          IN /\ PastHorizon => outcome = "ok"
             /\ outcome = "ctor_fail" => n \notin node_connections
             /\ (~second) => e = 0
             /\ now' = t2
             /\ nodes' = [nodes EXCEPT ![n] = check_node_node(@, outcome, t1)]
             /\ slot_ranges' = check_node_ranges(slot_ranges, n, nodes[n], outcome, t2)
             /\ node_connections' =
                   IF outcome = "ctor_fail" THEN node_connections
                                            ELSE node_connections \cup {n}
             /\ op' = Op("check_node", n, outcome)
    /\ pending' = Tail(pending)
    /\ UNCHANGED keysVars
    /\ UNCHANGED opsVars
    /\ UNCHANGED <<mon, pc, cluster, node_order, topology_changes,
                   last_topology_check, last_current_nodes, start_time>>

\* time.sleep(CHECK_INTERVAL)
LivePingSleep ==
    /\ mon = "ping" /\ pc = "probe" /\ pending = <<>>
    /\ \E d \in Steps : now' = Tick(d)
    /\ pc' = "cycle"
    /\ op' = Op("sleep", "", "")
    /\ UNCHANGED keysVars
    /\ UNCHANGED opsVars
    /\ UNCHANGED <<mon, cluster, node_connections, nodes, node_order, slot_ranges,
                   topology_changes, last_topology_check, last_current_nodes,
                   start_time, pending>>

\* one step of the loop of run()
NextLive ==
    \/ LiveUpdateTopologyOk
    \/ LiveUpdateTopologyFail
    \/ LiveCheckAllNodesBegin
    \/ LiveCheckNode
    \/ LivePingSleep

\* `while self.running` never stops by itself and every call in it returns
\* (the sockets have timeouts), so the loop always takes its next step
SpecLive == InitLive /\ [][NextLive]_vars /\ WF_vars(NextLive)

\* ================================================================== claims
\* every ledger the monitors keep: nodes, slot ranges and shards
Ledgers ==
    {nodes[n] : n \in DOMAIN nodes}
    \cup {slot_ranges[k] : k \in DOMAIN slot_ranges}
    \cup {shards[k] : k \in DOMAIN shards}

\* C1: in every reachable state a node or a shard has is_up = False exactly
\* when its downtime_start is set, and a slot range has is_down = True exactly
\* when its downtime_start is set.
C1_DownIffStartSet ==
    /\ \A n \in DOMAIN nodes : (~nodes[n].is_up) <=> (nodes[n].downtime_start # None)
    /\ \A k \in DOMAIN shards : (~shards[k].is_up) <=> (shards[k].downtime_start # None)
    /\ \A k \in DOMAIN slot_ranges :
          slot_ranges[k].is_down <=> (slot_ranges[k].downtime_start # None)

\* a node that went down and came back while a slot range is still down
C1_Witness ==
    \E n \in DOMAIN nodes, k \in DOMAIN slot_ranges :
        /\ nodes[n].is_up /\ nodes[n].downtime_events # <<>>
        /\ nodes[n].downtime_start = None
        /\ slot_ranges[k].is_down /\ slot_ranges[k].downtime_start # None

\* C2: for every node, slot range and shard, total_downtime equals the sum of
\* the durations of the events in its downtime_events, after every transition.
C2_TotalIsSumOfEvents ==
    \A l \in Ledgers : l.total_downtime = SumDur(l.downtime_events)

\* a slot range with two recorded events and a shard with a recorded event
C2_WitnessRange ==
    \E k \in DOMAIN slot_ranges :
        /\ Len(slot_ranges[k].downtime_events) >= 2
        /\ slot_ranges[k].total_downtime > 0

\* C3: every completed event of a node, slot range or shard has start < end
\* and duration = end - start.
C3_EventsWellFormed ==
    \A l \in Ledgers : \A i \in DOMAIN l.downtime_events :
        LET ev == l.downtime_events[i]
        IN ev[1] < ev[2] /\ ev[3] = ev[2] - ev[1]

\* a node that update_topology marked down (removed from the cluster) and that
\* answered the ping of the same cycle: the event starts at the topology check
C3_Witness ==
    \E n \in DOMAIN nodes :
        /\ op.name = "check_node" /\ op.target = n /\ op.outcome = "ok"
        /\ nodes[n].downtime_events # <<>>
        /\ LET ev == nodes[n].downtime_events[Len(nodes[n].downtime_events)]
           IN ev[1] = last_topology_check /\ ev[2] = now

\* C4: the events of an entity are in the order of their start times and do
\* not overlap: each starts no earlier than the one appended before it ended.
C4_EventsOrdered ==
    \A l \in Ledgers : \A i \in DOMAIN l.downtime_events :
        i > 1 => l.downtime_events[i][1] >= l.downtime_events[i - 1][2]

\* a node with two recorded events
C4_Witness ==
    \E n \in DOMAIN nodes : Len(nodes[n].downtime_events) >= 2

\* C5: a failed probe of a node or shard that is already DOWN changes nothing
\* of it: state, downtime_start, total_downtime and downtime_events stay, so
\* the downtime start is still the time of the first failure; a slot range
\* that is already down is left alone by a failed probe of any node.
C5_RepeatedFailureNoOp ==
    [][/\ (op'.name = "check_node" /\ op'.outcome \in {"raise", "ctor_fail"}
             /\ ~nodes[op'.target].is_up)
          => nodes'[op'.target] = nodes[op'.target]
       /\ (op'.name = "check_node" /\ op'.outcome \in {"raise", "ctor_fail"})
          => \A k \in DOMAIN slot_ranges :
                slot_ranges[k].is_down => slot_ranges'[k] = slot_ranges[k]
       /\ (op'.name = "check_shard" /\ op'.outcome = "raise"
             /\ ~shards[op'.target].is_up)
          => shards'[op'.target] = shards[op'.target]
      ]_vars

\* a failed ping of a node that has been down since an earlier cycle
C5_Witness ==
    /\ op.name = "check_node" /\ op.outcome = "raise"
    /\ ~nodes[op.target].is_up
    /\ nodes[op.target].downtime_start + 2 <= now

\* C6: a successful probe of a DOWN node or shard makes it UP, appends the one
\* event (downtime_start, now, now - downtime_start), adds that duration to
\* total_downtime and clears downtime_start; a successful probe of an UP
\* entity changes none of these fields.
Recovered(before, after, t) ==
    /\ after.is_up
    /\ after.downtime_start = None
    /\ after.downtime_events =
          Append(before.downtime_events,
                 <<before.downtime_start, t, t - before.downtime_start>>)
    /\ after.total_downtime = before.total_downtime + (t - before.downtime_start)

C6_SuccessfulProbe ==
    [][/\ (op'.name = "check_node" /\ op'.outcome = "ok")
          => IF ~nodes[op'.target].is_up
             THEN Recovered(nodes[op'.target], nodes'[op'.target], now')
             ELSE nodes'[op'.target] = nodes[op'.target]
       /\ (op'.name = "check_shard" /\ op'.outcome = "ok")
          => IF ~shards[op'.target].is_up
             THEN Recovered(shards[op'.target], shards'[op'.target], now')
             ELSE shards'[op'.target] = shards[op'.target]
      ]_vars

\* a shard whose probe just succeeded after it had been down
C6_Witness ==
    /\ op.name = "check_shard" /\ op.outcome = "ok"
    /\ shards[op.target].is_up
    /\ shards[op.target].downtime_events # <<>>
    /\ shards[op.target].downtime_events[Len(shards[op.target].downtime_events)][2] = now

\* the slot ranges for which the reply of the update_topology call just made
\* names another owner than the registry had
OwnerChanged(k) ==
    /\ op'.name = "update_topology" /\ op'.outcome = "ok"
    /\ k \in DOMAIN slot_ranges /\ k \in DOMAIN op'.owners
    /\ op'.owners[k] # slot_ranges[k].current_master_id

\* C7: when a slot range is DOWN and update_topology gets a snapshot in which
\* its owner changed from A to B, then after the call the range is UP, its
\* owner is B and exactly one event, with context (A, B), was appended; no
\* probe has to succeed for that.
C7_RecoveryOnOwnerChange ==
    [][\A k \in RangeKeys :
          (OwnerChanged(k) /\ slot_ranges[k].is_down)
          => /\ k \in DOMAIN slot_ranges'
             /\ ~slot_ranges'[k].is_down
             /\ slot_ranges'[k].downtime_start = None
             /\ slot_ranges'[k].current_master_id = op'.owners[k]
             /\ slot_ranges'[k].downtime_events =
                   Append(slot_ranges[k].downtime_events,
                          <<slot_ranges[k].downtime_start, now',
                            now' - slot_ranges[k].downtime_start,
                            slot_ranges[k].current_master_id, op'.owners[k]>>)
      ]_vars

\* a range that update_topology just recovered with context (old, new), while
\* the old owner never answered a probe again
C7_Witness ==
    /\ op.name = "update_topology" /\ op.outcome = "ok"
    /\ \E k \in DOMAIN slot_ranges :
          /\ ~slot_ranges[k].is_down
          /\ Len(slot_ranges[k].downtime_events) = 1
          /\ LET ev == slot_ranges[k].downtime_events[1]
             IN /\ ev[2] = now /\ ev[4] # ev[5]
                /\ ev[5] = slot_ranges[k].current_master_id
                /\ ev[4] \in DOMAIN nodes
                /\ nodes[ev[4]].downtime_events = <<>>

\* C8: when a slot range is UP and update_topology gets a snapshot with a
\* different owner for it, only current_master_id changes: is_down,
\* downtime_start, total_downtime and downtime_events stay, no event is added.
C8_PlannedOwnerChange ==
    [][\A k \in RangeKeys :
          (OwnerChanged(k) /\ ~slot_ranges[k].is_down)
          => /\ k \in DOMAIN slot_ranges'
             /\ slot_ranges'[k] =
                   [slot_ranges[k] EXCEPT !.current_master_id = op'.owners[k]]
      ]_vars

\* a range that recovered to some owner and has another owner now, with no
\* further event: its owner changed while it was UP
C8_Witness ==
    /\ op.name = "update_topology" /\ op.outcome = "ok"
    /\ \E k \in DOMAIN slot_ranges :
          /\ ~slot_ranges[k].is_down
          /\ Len(slot_ranges[k].downtime_events) = 1
          /\ slot_ranges[k].downtime_events[1][5] # slot_ranges[k].current_master_id
          /\ slot_ranges[k].downtime_events[1][2] < now

\* C9: a DOWN range whose owner changes becomes UP also when the old master's
\* NodeStatus is still DOWN, and the old master's is_up, downtime_start and
\* downtime_events are left as they were.
C9_RecoveryIgnoresNodeHealth ==
    [][\A k \in RangeKeys :
          (/\ OwnerChanged(k) /\ slot_ranges[k].is_down
           /\ slot_ranges[k].current_master_id \in DOMAIN nodes
           /\ ~nodes[slot_ranges[k].current_master_id].is_up)
          => LET old == slot_ranges[k].current_master_id
             IN /\ ~slot_ranges'[k].is_down
                /\ old \in DOMAIN nodes'
                /\ nodes'[old].is_up = nodes[old].is_up
                /\ nodes'[old].downtime_start = nodes[old].downtime_start
                /\ nodes'[old].downtime_events = nodes[old].downtime_events
      ]_vars

\* a range that is UP again under a new owner while its old owner is DOWN
\* since before the range went down
C9_Witness ==
    /\ op.name = "update_topology" /\ op.outcome = "ok"
    /\ \E k \in DOMAIN slot_ranges :
          /\ ~slot_ranges[k].is_down
          /\ slot_ranges[k].downtime_events # <<>>
          /\ LET ev == slot_ranges[k].downtime_events[Len(slot_ranges[k].downtime_events)]
             IN /\ ev[2] = now
                /\ ev[4] \in DOMAIN nodes
                /\ ~nodes[ev[4]].is_up
                /\ nodes[ev[4]].downtime_start <= ev[1]

\* C10: under the strict policy detect_downtime_start declares downtime iff
\* at least one of the four operations failed, and then a downtime is open.
C10_StrictVerdict ==
    (op.name = "detect_downtime_start" /\ STRICT_DOWNTIME_MODE)
    => /\ (op.outcome = "True") <=> (\E i \in DOMAIN op.probes : ~op.probes[i])
       /\ (op.outcome = "True") <=> (current_downtime # NoDowntime)

\* a strict cycle in which exactly one operation failed was declared downtime
C10_Witness ==
    /\ op.name = "detect_downtime_start" /\ STRICT_DOWNTIME_MODE
    /\ Cardinality({i \in DOMAIN op.probes : ~op.probes[i]}) = 1
    /\ op.outcome = "True"
    /\ current_downtime.start_time = now

\* the number of operations that failed in the detection cycle just made
failed_count == Cardinality({i \in DOMAIN op.probes : ~op.probes[i]})

\* C11 as stated: under the majority policy a detection cycle in which half
\* or more of the operations fail (2 of the 4) gives the verdict down.
C11_HalfIsDowntime ==
    (op.name = "detect_downtime_start" /\ ~STRICT_DOWNTIME_MODE
       /\ 2 * failed_count >= Len(operations))
    => op.outcome = "True"

\* C11: under the majority policy a detection cycle gives the verdict down
\* when more than half of the operations fail (failures >= n // 2 + 1, 3 of
\* the 4), and a cycle in which exactly half of them fail (2 of 4) does not.
C11_MoreThanHalfIsDowntime ==
    (op.name = "detect_downtime_start" /\ ~STRICT_DOWNTIME_MODE)
    => /\ failed_count >= Len(operations) \div 2 + 1
          => (op.outcome = "True" /\ current_downtime # NoDowntime)
       /\ 2 * failed_count = Len(operations)
          => (op.outcome = "False" /\ current_downtime = NoDowntime)

\* a majority-policy cycle with 2 of the 4 operations failed and no downtime
\* declared
C11_Witness ==
    /\ op.name = "detect_downtime_start" /\ ~STRICT_DOWNTIME_MODE
    /\ failed_count = 2
    /\ op.outcome = "False" /\ current_downtime = NoDowntime

\* C12: under the majority policy the verdict is up iff failed_count <= n // 2,
\* for every number of failed operations; with 1 failure of 4 the verdict is
\* up under the majority policy and down under the strict policy.
C12_MajorityVerdict ==
    op.name = "detect_downtime_start"
    => /\ ~STRICT_DOWNTIME_MODE
          => ((op.outcome = "False") <=> (failed_count <= Len(operations) \div 2))
       /\ failed_count = 1
          => ((op.outcome = "True") <=> STRICT_DOWNTIME_MODE)

\* a majority-policy cycle with 1 of the 4 operations failed and the verdict up
C12_Witness ==
    /\ op.name = "detect_downtime_start" /\ ~STRICT_DOWNTIME_MODE
    /\ failed_count = 1
    /\ op.outcome = "False"
    /\ consecutive_failures = 0

\* a percentage <<p, q>> that lies in [0, 100], and one that is exactly 100
InRange(u) == 0 <= u[1] /\ u[1] <= 100 * u[2]
Is100(u) == u[1] = 100 * u[2]

\* C13: the slot-weighted ClusterStatus.uptime_percentage of the node monitor
\* and of the key monitor is in [0, 100] in every reachable state, whatever
\* ranges are tracked and whatever downtime is recorded or going on, and it
\* is 100 when the runtime is 0.
C13_UptimeInRange ==
    \A e \in Lags :
        /\ InRange(ClusterStatus_uptime_percentage(slot_ranges, start_time, now + e))
        /\ InRange(KeyClusterStatus_uptime_percentage(shards, start_time, now, now + e))
        /\ Is100(ClusterStatus_uptime_percentage(slot_ranges, start_time, start_time))
        /\ Is100(KeyClusterStatus_uptime_percentage(shards, start_time,
                                                    start_time, start_time))

\* two overlapping ranges whose weighted downtime is more than the runtime:
\* the value before the clamp is below 0
C13_Witness ==
    /\ mon = "ping"
    /\ Cardinality(DOMAIN slot_ranges) = 2
    /\ total_slot_downtime(slot_ranges, DOMAIN slot_ranges)
          > TotalSlots * (now - start_time)
    /\ ClusterStatus_uptime_percentage(slot_ranges, start_time, now) = <<0, 1>>

\* no tracked node, slot range or shard is down or has a recorded event, and
\* the operation monitor has no open and no recorded downtime; this holds in
\* every state of a session in which no entity ever went down
NeverDown ==
    /\ \A l \in Ledgers : l.downtime_start = None /\ l.downtime_events = <<>>
    /\ current_downtime = NoDowntime
    /\ stats.downtime_events = <<>>

\* C14: while no entity has gone down since the session started, the uptime
\* percentage of each monitor is exactly 100 whenever it is read.
C14_NoDowntimeIs100 ==
    NeverDown
    => /\ \A e \in Lags :
             /\ Is100(ClusterStatus_uptime_percentage(slot_ranges, start_time, now + e))
             /\ Is100(KeyClusterStatus_uptime_percentage(shards, start_time,
                                                         now, now + e))
       /\ Is100(MonitoringStats_uptime_percentage(stats))

\* the key monitor after several successful probes of its shards, none of
\* which ever failed
C14_Witness ==
    /\ mon = "keys" /\ NeverDown
    /\ op.name = "check_shard" /\ op.outcome = "ok"
    /\ Cardinality(DOMAIN shards) = 2
    /\ now - start_time >= 4

\* two fractions <<p, q>> with the same value
SameFraction(u, v) == u[1] * v[2] = v[1] * u[2]

\* the sum over the ranges K of total_downtime * (slots of the range), the
\* slots counted in quarters of the key space
RECURSIVE QuarterDowntime(_, _)
QuarterDowntime(rs, K) ==
    IF K = {} THEN 0
    ELSE LET k == CHOOSE x \in K : TRUE
         IN rs[k].total_downtime * (((k[2] - k[1] + 1) * 4) \div TotalSlots)
            + QuarterDowntime(rs, K \ {k})

\* 100 * (1 - sum(total_downtime * slot_count / 16384) / runtime), clamped
WeightedUptime(rs, runtime) ==
    LET p == 100 * (4 * runtime - QuarterDowntime(rs, DOMAIN rs))
    IN IF p < 0 THEN <<0, 1>>
       ELSE IF p > 100 * (4 * runtime) THEN <<100, 1>>
       ELSE <<p, 4 * runtime>>

\* a slot range ledger with an owner and a recorded total downtime
DownFor(seconds) == [SlotRange("A") EXCEPT !.total_downtime = seconds]

\* C15: with a runtime above 0 the cluster uptime percentage of the node
\* monitor is 100 * (1 - sum over the ranges of
\* (total_downtime * slot_count / 16384) / total_runtime), clamped to
\* [0, 100]; one range of 16384 slots down for 5 s of 100 s gives 95, and a
\* range of 4096 slots down for 4 units gives what a range of 16384 slots
\* down for 1 unit gives.
C15_SlotWeightedUptime ==
    /\ now > start_time
       => SameFraction(ClusterStatus_uptime_percentage(slot_ranges, start_time, now),
                       WeightedUptime(slot_ranges, now - start_time))
    /\ SameFraction(
          ClusterStatus_uptime_percentage(<<0, 16383>> :> DownFor(5), 0, 100),
          <<95, 1>>)
    /\ \A runtime \in 1..MaxTime :
          ClusterStatus_uptime_percentage(<<0, 4095>> :> DownFor(4), 0, runtime)
          = ClusterStatus_uptime_percentage(<<0, 16383>> :> DownFor(1), 0, runtime)

\* a range of half the key space with recorded downtime next to a full range,
\* and an uptime strictly between 0 and 100
C15_Witness ==
    /\ mon = "ping"
    /\ <<0, 8191>> \in DOMAIN slot_ranges /\ <<0, 16383>> \in DOMAIN slot_ranges
    /\ slot_ranges[<<0, 8191>>].total_downtime > 0
    /\ LET u == ClusterStatus_uptime_percentage(slot_ranges, start_time, now)
       IN 0 < u[1] /\ u[1] < 100 * u[2]

\* the ledger `after` is `before` with its open interval closed at time t:
\* one more event, which runs from downtime_start to t, and its duration
\* added to total_downtime
Closed(before, after, t) ==
    /\ Len(after.downtime_events) = Len(before.downtime_events) + 1
    /\ after.downtime_events[Len(after.downtime_events)][1] = before.downtime_start
    /\ after.downtime_events[Len(after.downtime_events)][2] = t
    /\ after.total_downtime = before.total_downtime + (t - before.downtime_start)

\* C16: when the node monitor or the key monitor shuts down while a node, a
\* slot range or a shard is DOWN, shutdown closes the open interval: an event
\* that ends at the shutdown time is appended to the entity's downtime_events
\* and its duration is added to total_downtime.
C16_ShutdownClosesOpenIntervals ==
    [][(op'.name = "shutdown" /\ mon \in {"ping", "keys"})
       => /\ \A n \in DOMAIN nodes :
                (~nodes[n].is_up) => Closed(nodes[n], nodes'[n], now')
          /\ \A k \in DOMAIN slot_ranges :
                slot_ranges[k].is_down => Closed(slot_ranges[k], slot_ranges'[k], now')
          /\ \A k \in DOMAIN shards :
                (~shards[k].is_up) => Closed(shards[k], shards'[k], now')
      ]_vars

\* C17: shutdown() of the operation monitor with an open downtime event
\* completes it with end_time = the time of the shutdown, appends it to
\* stats.downtime_events and adds its duration to stats.total_downtime, so
\* the final metrics are read from the completed ledger; with no open event
\* downtime_events and total_downtime are unchanged.
C17_OpsShutdownCompletesOpenEvent ==
    [][(op'.name = "shutdown" /\ mon = "ops")
       => IF current_downtime # NoDowntime
          THEN /\ stats'.downtime_events =
                     Append(stats.downtime_events,
                            [current_downtime EXCEPT
                               !.end_time = now',
                               !.duration = now' - current_downtime.start_time])
               /\ stats'.total_downtime =
                     stats.total_downtime + (now' - current_downtime.start_time)
          ELSE /\ stats'.downtime_events = stats.downtime_events
               /\ stats'.total_downtime = stats.total_downtime
      ]_vars

\* the operation monitor shut down during a downtime that followed an earlier,
\* recovered one: the last event ends now and the total covers both
C17_Witness ==
    /\ mon = "ops" /\ pc = "done" /\ op.name = "shutdown"
    /\ Len(stats.downtime_events) = 2
    /\ LET ev == stats.downtime_events[2]
       IN /\ ev.end_time = now /\ ev.start_time < now
          /\ stats.total_downtime = stats.downtime_events[1].duration + ev.duration

\* C18: a failed probe of a node that is UP, the very first probe after
\* startup included, records as downtime_start the clock read during that
\* check_node call, never the session start_time; when the initial connection
\* of the operation monitor fails, the synthetic DowntimeEvent starts at the
\* time the connection attempt failed.
C18_DowntimeStartsAtFirstFailure ==
    [][/\ (op'.name = "check_node" /\ op'.outcome \in {"raise", "ctor_fail"}
             /\ nodes[op'.target].is_up)
          => /\ now < nodes'[op'.target].downtime_start
             /\ nodes'[op'.target].downtime_start <= now'
             /\ nodes'[op'.target].downtime_start # start_time
       /\ (mon = "ops" /\ op'.name = "run" /\ op'.outcome = "no_connection")
          => /\ current_downtime'.start_time = now'
             /\ current_downtime'.start_time # start_time
             /\ current_downtime'.failure_type = "initial_connection_failure"
      ]_vars

\* the first probe of the session, made right after the initial topology
\* update, failed: the node is down since that probe
C18_Witness ==
    /\ mon = "ping" /\ op.name = "check_node" /\ op.outcome = "raise"
    /\ \A n \in DOMAIN nodes : nodes[n].downtime_events = <<>>
    /\ last_topology_check = start_time + 1
    /\ nodes[op.target].downtime_start = start_time + 2
    /\ \A n \in DOMAIN nodes \ {op.target} : nodes[n].is_up

\* C19: every shard the topology reports at startup of the key monitor gets a
\* ShardStatus, also a shard whose initial key write fails: such a shard is
\* registered as DOWN with downtime_start = the time it was first observed.
C19_UnreachableShardRegistered ==
    [][(mon = "keys" /\ op'.name = "run" /\ op'.outcome = "ok")
       => \A k \in DOMAIN op'.owners :
             /\ k \in DOMAIN shards'
             /\ shards'[k].is_up \/ shards'[k].downtime_start = now'
      ]_vars

\* C20: when update_topology processes a reply that lists a tracked node
\* neither as primary nor as replica, a node that was UP becomes DOWN with
\* downtime_start = the time of that update, and a node that was DOWN stays
\* DOWN with the downtime_start it had.
C20_RemovedNodeMarkedDown ==
    [][(op'.name = "update_topology" /\ op'.outcome = "ok")
       => \A n \in DOMAIN nodes :
             n \notin op'.present
             => /\ n \in DOMAIN nodes'
                /\ ~nodes'[n].is_up
                /\ nodes'[n].downtime_events = nodes[n].downtime_events
                /\ nodes'[n].downtime_start =
                      IF nodes[n].is_up THEN last_topology_check'
                                        ELSE nodes[n].downtime_start
                /\ last_topology_check' = now'
      ]_vars

\* a topology update that lists neither tracked node: one went down with it,
\* the other has been down since an earlier failed probe
C20_Witness ==
    /\ op.name = "update_topology" /\ op.outcome = "ok"
    /\ \E a, b \in DOMAIN nodes :
          /\ a \notin op.present /\ b \notin op.present
          /\ ~nodes[a].is_up /\ nodes[a].downtime_start = now
          /\ ~nodes[b].is_up /\ nodes[b].downtime_start < now

\* the nodes that own a slot range in the reply of the last update_topology
Owners == {op.owners[k] : k \in DOMAIN op.owners}

\* C21: after update_topology has processed a reply, every tracked node the
\* reply lists (as primary or as replica of an entry it reads) has is_master
\* = True iff it owns at least one slot range of the reply: a former master
\* that is only a replica now is demoted, a former replica that owns a range
\* now is promoted.
C21_RoleFollowsOwnership ==
    (op.name = "update_topology" /\ op.outcome = "ok")
    => \A n \in op.present :
          /\ n \in DOMAIN nodes
          /\ nodes[n].is_master <=> (n \in Owners)

\* a reply in which the owner of the range is a node that joined after the
\* other one, and the other one, a master that was probed before, is listed
\* as replica only
C21_Witness ==
    /\ op.name = "update_topology" /\ op.outcome = "ok"
    /\ \E a, b \in op.present :
          /\ nodes[a].is_master /\ a \in Owners
          /\ ~nodes[b].is_master /\ b \notin Owners
          /\ b \in node_connections
          /\ node_order = <<b, a>>

\* the update_topology call just made added a node, changed a node's role,
\* marked a node as removed from the cluster, added a slot range, changed a
\* range's owner or removed a range
RegistryChanged ==
    \/ DOMAIN nodes' # DOMAIN nodes
    \/ \E n \in DOMAIN nodes : nodes'[n].is_master # nodes[n].is_master
    \/ \E n \in DOMAIN nodes : n \notin op'.present /\ nodes[n].is_up
    \/ DOMAIN slot_ranges' # DOMAIN slot_ranges
    \/ \E k \in DOMAIN slot_ranges \cap DOMAIN slot_ranges' :
          slot_ranges'[k].current_master_id # slot_ranges[k].current_master_id

\* C22: a successful update_topology call increments topology_changes by
\* exactly 1 iff it added a node, changed a node's role, marked a node as
\* removed, added a slot range, changed a range's owner or removed a range,
\* and leaves the counter unchanged otherwise.
C22_CounterFollowsChanges ==
    [][(op'.name = "update_topology" /\ op'.outcome = "ok")
       => topology_changes' =
             IF RegistryChanged THEN topology_changes + 1 ELSE topology_changes
      ]_vars

\* the health part of a ledger
Health(l) == <<l.downtime_start, l.total_downtime, l.downtime_events>>

\* C23: a slot range that is in the registry and not in a successfully
\* processed reply is deleted from the registry, and that is no outage: in
\* such a call every node the reply lists keeps its up/down state and its
\* events, and every other range whose owner the reply confirms is left as
\* it was, also when the removed range was DOWN.
C23_RemovedRangeIsNoOutage ==
    [][(op'.name = "update_topology" /\ op'.outcome = "ok")
       => \A k \in DOMAIN slot_ranges \ DOMAIN op'.owners :
             /\ k \notin DOMAIN slot_ranges'
             /\ \A n \in DOMAIN nodes \cap op'.present :
                   /\ nodes'[n].is_up = nodes[n].is_up
                   /\ Health(nodes'[n]) = Health(nodes[n])
             /\ \A k2 \in DOMAIN slot_ranges \cap DOMAIN op'.owners :
                   op'.owners[k2] = slot_ranges[k2].current_master_id
                   => slot_ranges'[k2] = slot_ranges[k2]
      ]_vars

\* the first topology update after a master failed its probe at tick 2: the
\* range that went down with it is gone from the registry, the node is still
\* down since tick 2 and the one range left never had an event
C23_Witness ==
    /\ op.name = "update_topology" /\ op.outcome = "ok"
    /\ last_topology_check = now /\ now <= start_time + 5
    /\ Cardinality(DOMAIN slot_ranges) = 1
    /\ \A k \in DOMAIN slot_ranges :
          ~slot_ranges[k].is_down /\ slot_ranges[k].downtime_events = <<>>
    /\ \E n \in op.present :
          /\ ~nodes[n].is_up /\ nodes[n].downtime_start = start_time + 2
          /\ nodes[n].downtime_events = <<>>

\* C24: when the topology query cannot be completed (no cluster connection,
\* or cluster_slots raises) update_topology returns False and the registry is
\* as before the call: the same nodes and slot ranges with the same roles,
\* owners and health, and the same topology_changes.
C24_FailedQueryKeepsRegistry ==
    [][(op'.name = "update_topology" /\ op'.outcome \in TopologyFailures)
       => /\ nodes' = nodes
          /\ slot_ranges' = slot_ranges
          /\ topology_changes' = topology_changes
          /\ last_topology_check' = last_topology_check
      ]_vars

\* a topology query that failed while the registry holds a node that is
\* down and a range that is down
C24_Witness ==
    /\ op.name = "update_topology" /\ op.outcome = "slots_error"
    /\ topology_changes > 0
    /\ \E n \in DOMAIN nodes : ~nodes[n].is_up
    /\ \E k \in DOMAIN slot_ranges : slot_ranges[k].is_down

\* the slot ranges K overlap, or leave a slot of 0 .. TotalSlots - 1 uncovered
Overlapping(K) ==
    \E k1, k2 \in K : k1 # k2 /\ k1[1] <= k2[2] /\ k2[1] <= k1[2]
CoveredSlot(K, x) == \E k \in K : k[1] <= x /\ x <= k[2]
MissingCoverage(K) ==
    \/ ~CoveredSlot(K, 0)
    \/ \E k \in K : k[2] + 1 < TotalSlots /\ ~CoveredSlot(K, k[2] + 1)

\* C25: a malformed reply (overlapping slot ranges or missing slot coverage
\* among the ranges it assigns) is rejected as a whole: update_topology
\* applies none of it, so no node is added, no range is added, re-owned or
\* removed and no ledger changes.
C25_MalformedSnapshotRejected ==
    [][(/\ op'.name = "update_topology" /\ op'.outcome = "ok"
        /\ \/ Overlapping(DOMAIN op'.owners)
           \/ MissingCoverage(DOMAIN op'.owners))
       => /\ nodes' = nodes
          /\ slot_ranges' = slot_ranges
          /\ topology_changes' = topology_changes
      ]_vars

\* C26: when the operation monitor reads its uptime percentage in a status
\* update, the total runtime the percentage is computed from is now -
\* start_time, so a status update issued after a completed downtime event
\* reports an uptime below 100.
C26_StatusUsesElapsedRuntime ==
    (mon = "ops" /\ op.name = "print_status_update")
    => /\ stats.total_runtime = now - start_time
       /\ stats.downtime_events # <<>>
          => ~Is100(MonitoringStats_uptime_percentage(stats))

\* C27: MonitoringStats.uptime_percentage of the operation monitor is in
\* [0, 100] in every state it is read in, the final report of a shutdown that
\* closes a downtime open since the initial connection failed included:
\* total_downtime never exceeds total_runtime there.
C27_OpsUptimeInRange ==
    mon = "ops"
    => /\ InRange(MonitoringStats_uptime_percentage(stats))
       /\ pc = "done" => stats.total_downtime <= stats.total_runtime

\* a shutdown that closed the downtime open since the initial connection
\* failed, with the clock moving on between the read for total_runtime and
\* the read for the end of the event: the downtime is the whole runtime
C27_Witness ==
    /\ mon = "ops" /\ pc = "done"
    /\ Len(stats.downtime_events) = 1
    /\ stats.downtime_events[1].failure_type = "initial_connection_failure"
    /\ stats.downtime_events[1].end_time = now
    /\ stats.total_runtime = now - 1 - start_time
    /\ stats.total_downtime = stats.total_runtime
    /\ MonitoringStats_uptime_percentage(stats)[1] = 0

\* the positions inside the monitoring loops, and the steps a loop takes
InLoop == pc \in {"cycle", "probe", "loop"}
LoopStep ==
    \/ UpdateTopologyOk \/ UpdateTopologyFail \/ CheckAllNodesBegin
    \/ CheckNode \/ PingSleep
    \/ CheckAllShardsBegin \/ CheckShard \/ KeysSleep
    \/ DetectDowntimeStart \/ DetectionFailure \/ AttemptRecovery

\* C28: no error of a probe, a reconnect, a topology query or a status print
\* ends a monitoring loop: the node monitor and the operation monitor enter
\* their loop whatever the initial query or connection gave, a loop is left
\* only on an interrupt (the shutdown after KeyboardInterrupt, or the exit of
\* the installed signal handler), and in every state of a
\* loop (while the clock of the model has two ticks left) a next step of the
\* loop can be taken, also when every node is down or no connection exists.
C28_ErrorsNeverEndTheLoop ==
    /\ [][/\ (mon \in {"ping", "ops"} /\ pc = "start") => InLoop'
          /\ (InLoop /\ ~InLoop') => op'.name \in {"shutdown", "signal_handler"}
         ]_vars
    /\ []((InLoop /\ now + 2 <= MaxTime) => ENABLED LoopStep)

\* the node monitor goes on to probe its nodes after a topology query failed
\* while every tracked node is down
C28_Witness ==
    /\ mon = "ping" /\ pc = "probe" /\ pending # <<>>
    /\ op.name = "update_topology" /\ op.outcome \in {"no_ping", "slots_error"}
    /\ \A n \in DOMAIN nodes : ~nodes[n].is_up
    /\ now >= start_time + 4

\* C29: attempt_recovery ends a downtime only on full recovery.  If the
\* reconnect and all four operations succeeded it returns True, completes the
\* open event at the time of the attempt, appends it to stats.downtime_events,
\* adds its duration to stats.total_downtime and clears current_downtime;
\* otherwise, in strict and in majority mode alike, it returns False and
\* leaves current_downtime, downtime_events and total_downtime unchanged.
C29_RecoveryNeedsAllOperations ==
    [][op'.name = "attempt_recovery"
       => IF \A i \in DOMAIN op'.probes : op'.probes[i]
          THEN /\ op'.outcome = "True"
               /\ current_downtime' = NoDowntime
               /\ Len(stats'.downtime_events) = Len(stats.downtime_events) + 1
               /\ LET ev == stats'.downtime_events[Len(stats'.downtime_events)]
                  IN /\ ev.start_time = current_downtime.start_time
                     /\ now < ev.end_time /\ ev.end_time <= now'
                     /\ ev.duration = ev.end_time - ev.start_time
                     /\ stats'.total_downtime = stats.total_downtime + ev.duration
          ELSE /\ op'.outcome = "False"
               /\ current_downtime' = current_downtime
               /\ stats'.downtime_events = stats.downtime_events
               /\ stats'.total_downtime = stats.total_downtime
      ]_vars

\* a recovery attempt in majority mode in which the reconnect and three of
\* the four operations succeeded: the downtime stays open
C29_Witness ==
    /\ op.name = "attempt_recovery" /\ ~STRICT_DOWNTIME_MODE
    /\ failed_count = 1
    /\ op.outcome = "False"
    /\ current_downtime # NoDowntime /\ current_downtime.end_time = None
    /\ rc

\* C30: in every evaluation cycle of the node monitor every node of the
\* registry is probed, master or replica, up or down: the nodes check_all_nodes
\* is about to probe are all the tracked nodes.
C30_EveryNodeProbed ==
    [][(mon = "ping" /\ pc = "cycle" /\ pc' = "probe")
       => \A n \in DOMAIN nodes' : \E i \in DOMAIN pending' : pending'[i] = n
      ]_vars

\* the check_node call just made observed a failed probe (the connection
\* could not be made, or the ping raised or timed out) of an UP master
FailedProbeOfUpMaster ==
    /\ op'.name = "check_node" /\ op'.outcome \in {"raise", "ctor_fail"}
    /\ nodes[op'.target].is_up /\ nodes[op'.target].is_master

\* C31 as stated: after check_node observes a failed probe of an UP master,
\* the node is DOWN and every slot range it owns is DOWN with a downtime_start
\* not earlier than the node's; slot ranges of other owners are unchanged.
C31_FailedProbeMarksDown ==
    [][FailedProbeOfUpMaster
       => /\ ~nodes'[op'.target].is_up
          /\ DOMAIN slot_ranges' = DOMAIN slot_ranges
          /\ \A k \in DOMAIN slot_ranges :
                IF slot_ranges[k].current_master_id = op'.target
                THEN /\ slot_ranges'[k].is_down
                     /\ slot_ranges'[k].downtime_start
                           >= nodes'[op'.target].downtime_start
                ELSE slot_ranges'[k] = slot_ranges[k]
      ]_vars

\* C31: a probe that times out or raises is a failed probe: after check_node
\* observes a failed probe of an UP master, the node is DOWN since the time of
\* the probe and every slot range it owns is DOWN; a range that was UP gets a
\* downtime_start not earlier than the node's, a range that was DOWN already
\* keeps its earlier downtime_start, and the slot ranges of other owners are
\* unchanged.
C31_FailedProbeMarksUpRangesDown ==
    [][FailedProbeOfUpMaster
       => /\ ~nodes'[op'.target].is_up
          /\ now < nodes'[op'.target].downtime_start
          /\ nodes'[op'.target].downtime_start <= now'
          /\ DOMAIN slot_ranges' = DOMAIN slot_ranges
          /\ \A k \in DOMAIN slot_ranges :
                IF slot_ranges[k].current_master_id = op'.target
                THEN /\ slot_ranges'[k].is_down
                     /\ IF slot_ranges[k].is_down
                        THEN slot_ranges'[k] = slot_ranges[k]
                        ELSE /\ slot_ranges'[k].downtime_start
                                   >= nodes'[op'.target].downtime_start
                             /\ slot_ranges'[k].downtime_start <= now'
                ELSE slot_ranges'[k] = slot_ranges[k]
      ]_vars

\* a ping that raised for an UP master owning one range that was UP and is
\* down since that probe, while the other node's range is up
C31_Witness ==
    /\ op.name = "check_node" /\ op.outcome = "raise"
    /\ ~nodes[op.target].is_up /\ nodes[op.target].downtime_start = now
    /\ \E k1, k2 \in DOMAIN slot_ranges :
          /\ slot_ranges[k1].current_master_id = op.target
          /\ slot_ranges[k1].is_down /\ slot_ranges[k1].downtime_start = now
          /\ slot_ranges[k2].current_master_id # op.target
          /\ ~slot_ranges[k2].is_down

\* C32: when check_node marks a DOWN node as recovered it leaves every slot
\* range unchanged (is_down, downtime_start, owner, events), and a slot range
\* that is DOWN returns to UP only in a successful update_topology whose
\* snapshot reports a different owner for it.
C32_NodeRecoveryLeavesRanges ==
    [][/\ (op'.name = "check_node" /\ op'.outcome = "ok"
             /\ ~nodes[op'.target].is_up /\ nodes'[op'.target].is_up)
          => slot_ranges' = slot_ranges
       /\ \A k \in DOMAIN slot_ranges \cap DOMAIN slot_ranges' :
             (slot_ranges[k].is_down /\ ~slot_ranges'[k].is_down)
             => /\ op'.name = "update_topology" /\ op'.outcome = "ok"
                /\ k \in DOMAIN op'.owners
                /\ op'.owners[k] # slot_ranges[k].current_master_id
      ]_vars

\* a master that answered its ping again after a downtime, while the range it
\* owns is still down since the master failed
C32_Witness ==
    /\ op.name = "check_node" /\ op.outcome = "ok"
    /\ nodes[op.target].is_up
    /\ nodes[op.target].downtime_events # <<>>
    /\ nodes[op.target].downtime_events[Len(nodes[op.target].downtime_events)][2] = now
    /\ \E k \in DOMAIN slot_ranges :
          /\ slot_ranges[k].current_master_id = op.target
          /\ slot_ranges[k].is_down
          /\ slot_ranges[k].downtime_start < now
          /\ slot_ranges[k].downtime_events = <<>>

\* C33: when SIGINT is delivered while a monitoring loop is running, with the
\* module's signal_handler installed, the monitor executes shutdown() and
\* produces the final report before the process exits: every step that
\* leaves a loop is a shutdown, which for the operation monitor sets
\* stats.total_runtime.
C33_InterruptRunsShutdown ==
    [][(InLoop /\ ~InLoop')
       => /\ pc' = "done"
          /\ op'.name = "shutdown"
          /\ mon = "ops" => stats'.total_runtime = now - start_time
      ]_vars

\* C34: a perform_operation call with a connection makes at most MAX_RETRIES
\* attempts, stops at the first successful attempt and returns True, returns
\* False only after the MAX_RETRIES-th failed attempt, and increments exactly
\* one of stats.total_operations (on success) or stats.failed_operations (on
\* failure) by exactly 1; without a connection it returns False, makes no
\* attempt and changes neither counter.
C34_PerformOperationBounded ==
    /\ [](op.name = "perform_operation"
          => /\ Len(op.probes) <= MAX_RETRIES
             /\ \A i \in DOMAIN op.probes : op.probes[i] => i = Len(op.probes)
             /\ pc = "return"
                => /\ op.outcome \in {"True", "False"}
                   /\ op.outcome = "True"
                      <=> (op.probes # <<>> /\ op.probes[Len(op.probes)])
                   /\ (op.outcome = "False" /\ rc) => Len(op.probes) = MAX_RETRIES
                   /\ ~rc => op.probes = <<>>)
    /\ [][/\ pc = "call"
             => /\ stats' = stats
                /\ pc' = IF rc THEN "attempt" ELSE "return"
          /\ pc = "attempt"
             => /\ Len(op'.probes) = Len(op.probes) + 1
                /\ stats' =
                      IF pc' = "attempt" THEN stats
                      ELSE IF op'.outcome = "True"
                           THEN [stats EXCEPT !.total_operations = @ + 1]
                           ELSE [stats EXCEPT !.failed_operations = @ + 1]
         ]_vars

\* a call that returned True on its last attempt, after MAX_RETRIES - 1
\* failed ones, with one more operation counted and no more failed one
C34_Witness ==
    /\ op.name = "perform_operation" /\ pc = "return" /\ op.outcome = "True"
    /\ Len(op.probes) = MAX_RETRIES
    /\ stats.total_operations = 2 /\ stats.failed_operations = 1

\* a call that returned False after MAX_RETRIES failed attempts
C34_WitnessFailed ==
    /\ op.name = "perform_operation" /\ pc = "return" /\ op.outcome = "False"
    /\ rc /\ Len(op.probes) = MAX_RETRIES
    /\ stats.total_operations = 0 /\ stats.failed_operations = 1

\* C35: in every state of the node monitor between cycles, if a master node
\* is marked DOWN then every slot range whose current_master_id is that node
\* is marked down, also after an owner change that hands a range to a node
\* that is already DOWN and after a range is newly added for a DOWN owner.
C35_DownMasterHasDownRanges ==
    (mon = "ping" /\ pc = "cycle")
    => \A n \in DOMAIN nodes :
          (nodes[n].is_master /\ ~nodes[n].is_up)
          => \A k \in DOMAIN slot_ranges :
                slot_ranges[k].current_master_id = n => slot_ranges[k].is_down

\* C36: after every update_topology call that returns True, the tracked slot
\* ranges are exactly the slot ranges of the snapshot that have a well-formed
\* primary, and each tracked range's current_master_id is the snapshot's
\* owner of that range, whether the range was UP or DOWN before the call.
C36_RangesFollowSnapshot ==
    (op.name = "update_topology" /\ op.outcome = "ok")
    => /\ DOMAIN slot_ranges = DOMAIN op.owners
       /\ \A k \in DOMAIN slot_ranges :
             slot_ranges[k].current_master_id = op.owners[k]

\* a snapshot that moved a DOWN range to another owner, kept a second range
\* and had been preceded by one that listed fewer ranges
C36_Witness ==
    /\ op.name = "update_topology" /\ op.outcome = "ok"
    /\ topology_changes >= 2
    /\ Cardinality(DOMAIN slot_ranges) = 2
    /\ \E k \in DOMAIN slot_ranges :
          /\ slot_ranges[k].downtime_events # <<>>
          /\ LET ev == slot_ranges[k].downtime_events[Len(slot_ranges[k].downtime_events)]
             IN /\ ev[2] = now
                /\ ev[4] # ev[5]
                /\ ev[5] = slot_ranges[k].current_master_id

\* the node n is DOWN since the latest successful update_topology, which
\* marked it down because its reply did not list it
MarkedDownAsAbsent(n) ==
    /\ n \in DOMAIN nodes /\ n \notin last_current_nodes
    /\ ~nodes[n].is_up
    /\ nodes[n].downtime_start = last_topology_check

\* C38: once update_topology has marked a node DOWN because it is absent from
\* the cluster snapshot, the node stays DOWN and records no further downtime
\* event for as long as it stays absent from the snapshots, even if the node
\* still answers pings.
C38_AbsentNodeStaysDown ==
    [][\A n \in Nodes :
          (MarkedDownAsAbsent(n) /\ n \notin last_current_nodes')
          => /\ ~nodes'[n].is_up
             /\ nodes'[n].downtime_events = nodes[n].downtime_events
      ]_vars

\* C37: a node that is DOWN and still listed in the topology is eventually
\* marked UP once its probes succeed from some point on, under fair scheduling
\* of the monitoring loop; this includes a former master that was demoted to
\* replica while it was DOWN.  (Past the horizon every probe that is made
\* succeeds and a listed node stays listed.)
C37_DownNodeEventuallyUp ==
    \A n \in Nodes :
        (IF n \in DOMAIN nodes
         THEN PastHorizon /\ n \in last_current_nodes /\ ~nodes[n].is_up
         ELSE FALSE)
        ~> (IF n \in DOMAIN nodes
            THEN nodes[n].is_up \/ n \notin last_current_nodes
            ELSE TRUE)

\* the event ev is completed: end_time and duration are set and agree
Completed(ev) ==
    /\ ev.start_time # None /\ ev.end_time # None /\ ev.duration # None
    /\ ev.duration = ev.end_time - ev.start_time

\* C39: in the operation monitor's run loop at most one downtime event is
\* open at any time and it is never replaced while open: detect_downtime_start
\* is invoked only when current_downtime is None, attempt_recovery only when
\* it is set, an open event stays the same event until it is completed and
\* appended to stats.downtime_events, and every event in stats.downtime_events
\* is completed (end_time and duration set, duration = end_time - start_time).
C39_OneOpenEventNeverReplaced ==
    /\ [](mon = "ops"
          => /\ \A i \in DOMAIN stats.downtime_events :
                   Completed(stats.downtime_events[i])
             /\ (pc = "loop" /\ current_downtime # NoDowntime)
                => /\ current_downtime.end_time = None
                   /\ current_downtime.duration = None)
    /\ [][/\ op'.name \in {"detect_downtime_start", "detection_failure"}
             => current_downtime = NoDowntime
          /\ op'.name = "attempt_recovery" => current_downtime # NoDowntime
          /\ (mon = "ops" /\ pc = "loop" /\ current_downtime # NoDowntime)
             => \/ /\ current_downtime' = current_downtime
                   /\ stats'.downtime_events = stats.downtime_events
                \/ /\ Len(stats'.downtime_events) = Len(stats.downtime_events) + 1
                   /\ LET ev == stats'.downtime_events[Len(stats'.downtime_events)]
                      IN /\ ev.start_time = current_downtime.start_time
                         /\ ev.failure_type = current_downtime.failure_type
                         /\ Completed(ev)
                   /\ current_downtime' \in {NoDowntime,
                         stats'.downtime_events[Len(stats'.downtime_events)]}
         ]_vars

\* a downtime opened because the detection itself failed was completed by a
\* recovery, and a later downtime is open and has survived a recovery attempt
C39_Witness ==
    /\ mon = "ops" /\ pc = "loop"
    /\ op.name = "attempt_recovery" /\ op.outcome = "False"
    /\ Len(stats.downtime_events) = 1
    /\ stats.downtime_events[1].failure_type = "detection_failure"
    /\ current_downtime # NoDowntime
    /\ current_downtime.failure_type = "operation_failure"
    /\ current_downtime.start_time >= stats.downtime_events[1].end_time
=============================================================================
